---- MODULE Spec2Model ----
(***************************************************************************)
(* Model of the MusicStructureVisualizer: the Morton (Z-order) mapping,    *)
(* tempo-aligned windowing, RMS power, canvas sizing, the power cache with *)
(* its two-phase normalization, and the processing pipeline of UI v2.      *)
(*                                                                         *)
(* Numbers.  JavaScript's bitwise operators work on 32-bit signed          *)
(* integers; they are modelled bit for bit on integers in                  *)
(* MinInt32..MaxInt32.  A JavaScript Number that may lie outside that      *)
(* range (a window index plus an offset) is the record [k, v] that stands  *)
(* for k * 2^32 + v with v in MinInt32..MaxInt32, so that ToInt32 is the   *)
(* projection on v.  Real-valued quantities (window interval, powers) are  *)
(* exact rationals; floating-point rounding error is not modelled.         *)
(***************************************************************************)
EXTENDS Integers, Naturals, Sequences, FiniteSets, TLC

VARIABLES
    morton,     \* arguments and results of the Morton functions (z-order.ts)
    win,        \* a window specification, a window index and its start sample
    sizing,     \* a window count and the canvas computed for it
    rms,        \* arguments and result of calculateRMSPower
    state,      \* the application state object (AppState)
    canvas,     \* the visualisation canvas: its size and displayed pixels
    draw,       \* the redrawCanvas call of the last step, and counts of events
    inputs,     \* the values of the form inputs
    ui,         \* disabled buttons, shown panels, pending timers
    passes,     \* the processing passes in flight (suspended coroutines)
    loads,      \* file loads and tempo detections in flight
    playback,   \* playbackState and the clock of the audio context
    overlay,    \* the marker overlay and the seek slider
    lastPass,   \* the pass that returned the pipeline to idle in the last step
    query,      \* a time or a click on the canvas, and what it was mapped to
    shade,      \* arguments and result of powerToColor
    audio,      \* the audio context: its state, the source nodes, the animation frame
    progress    \* the progress bar, and the loop of the pass that reports to it

appVars == <<state, canvas, draw, inputs, ui, passes, loads, playback, overlay, lastPass>>

QueryIdle ==
    [pc |-> "none", trip |-> "none", time |-> [num |-> 0, den |-> 1],
     canvasX |-> [num |-> 0, den |-> 1], canvasY |-> [num |-> 0, den |-> 1],
     bpm |-> [num |-> 0, den |-> 1], cachedSamplesPerBeat |-> 0,
     cachedCanvasWidth |-> 0, cachedCanvasHeight |-> 0,
     zOrderOffset |-> [k |-> 0, v |-> 0], audioDuration |-> [num |-> 0, den |-> 1],
     position |-> <<>>, clickTime |-> <<>>]

vars ==
    <<morton, win, sizing, rms, state, canvas, draw, inputs, ui, passes, loads, playback,
      overlay, lastPass, query, shade, audio, progress>>

\* A nullable reference: null is the empty tuple, a value v is <<v>>.
Null == <<>>

Some(v) == <<v>>

IsNull(ref) == ref = <<>>

Get(ref) == ref[1]

(***************************************************************************)
(* ECMAScript 32-bit integer operators                                     *)
(***************************************************************************)
MaxInt32 == 2147483647
MinInt32 == (-2147483647) - 1

\* the low 31 bits of a two's-complement int32, as a natural number
Low31(a) == IF a >= 0 THEN a ELSE (a + MaxInt32) + 1

\* the int32 with sign bit `neg` and low 31 bits u
FromLow31(neg, u) == IF neg THEN (u - MaxInt32) - 1 ELSE u

\* bitwise and / or of two naturals below 2^n, the low half of the bits and
\* the high half separately
RECURSIVE AndBits(_, _, _)
AndBits(u, w, n) ==
    IF u = 0 \/ w = 0 THEN 0
    ELSE IF n = 1 THEN u * w
    ELSE LET half == n \div 2
         IN  AndBits(u % (2 ^ half), w % (2 ^ half), half)
                + (2 ^ half) * AndBits(u \div (2 ^ half), w \div (2 ^ half), n - half)

RECURSIVE OrBits(_, _, _)
OrBits(u, w, n) ==
    IF u = 0 THEN w
    ELSE IF w = 0 THEN u
    ELSE IF n = 1 THEN 1
    ELSE LET half == n \div 2
         IN  OrBits(u % (2 ^ half), w % (2 ^ half), half)
                + (2 ^ half) * OrBits(u \div (2 ^ half), w \div (2 ^ half), n - half)

And31(u, w) == AndBits(u, w, 31)

Or31(u, w) == OrBits(u, w, 31)

\* a & b
BitAnd(a, b) == FromLow31(a < 0 /\ b < 0, And31(Low31(a), Low31(b)))

\* a | b
BitOr(a, b) == FromLow31(a < 0 \/ b < 0, Or31(Low31(a), Low31(b)))

\* a << s : the shift count is taken modulo 32, bits shifted past bit 31 are lost
ShiftLeft(a, s) ==
    LET count == s % 32
    IN  IF count = 0 THEN a
        ELSE IF count = 31 THEN FromLow31(Low31(a) % 2 = 1, 0)
        ELSE FromLow31((Low31(a) \div (2 ^ (31 - count))) % 2 = 1,
                       (Low31(a) % (2 ^ (31 - count))) * (2 ^ count))

\* a >> s : sign-propagating right shift, the floor of a / 2^s
ShiftRight(a, s) ==
    LET count == s % 32
    IN  IF count = 0 THEN a
        ELSE IF count = 31 THEN (IF a < 0 THEN -1 ELSE 0)
        ELSE FromLow31(a < 0,
                (Low31(a) \div (2 ^ count))
                    + (IF a < 0 THEN MaxInt32 - ((2 ^ (31 - count)) - 1) ELSE 0))

(***************************************************************************)
(* JavaScript Numbers holding integers that may exceed the int32 range     *)
(***************************************************************************)
\* the Number k * 2^32 + v
Num(k, v) == [k |-> k, v |-> v]

\* ToInt32, which every bitwise operator applies to its operands
ToInt32(n) == n.v

NumIsNegative(n) == n.k < 0 \/ (n.k = 0 /\ n.v < 0)

\* n + i for a window index i >= 0 (the double addition is exact below 2^53)
NumPlus(n, i) ==
    IF n.v > MaxInt32 - i
    THEN Num(n.k + 1, ((n.v - MaxInt32) + (i - 1)) + MinInt32)
    ELSE Num(n.k, n.v + i)

\* n + i for any int32 i
NumAdd(n, i) ==
    IF i >= 0 THEN NumPlus(n, i)
    ELSE IF n.v < MinInt32 - i
    THEN Num(n.k - 1, (MaxInt32 + (((n.v - MinInt32) + i) + 1)))
    ELSE Num(n.k, n.v + i)

\* z - n for an int32 z
NumMinus(z, n) ==
    IF z >= 0 /\ n.v < 0 /\ z > MaxInt32 + n.v
    THEN Num(1 - n.k, ((((z - MaxInt32) - 1) - n.v) - MaxInt32) - 1)
    ELSE IF z < 0 /\ n.v > 0 /\ z < MinInt32 + n.v
    THEN Num((-n.k) - 1, (((z - MinInt32) - n.v) + MaxInt32) + 1)
    ELSE Num(-n.k, z - n.v)

(***************************************************************************)
(* Exact rational arithmetic for the real-valued quantities                *)
(***************************************************************************)
RECURSIVE GCD(_, _)
GCD(a, b) == IF b = 0 THEN a ELSE GCD(b, a % b)

Abs(a) == IF a < 0 THEN -a ELSE a

\* the rational n / d in lowest terms with a positive denominator (d # 0)
Rat(n, d) ==
    LET g == GCD(Abs(n), Abs(d))
        sgn == IF d < 0 THEN -1 ELSE 1
    IN  [num |-> sgn * (n \div g), den |-> sgn * (d \div g)]

RatMul(p, q) == Rat(p.num * q.num, p.den * q.den)
RatDiv(p, q) == Rat(p.num * q.den, p.den * q.num)
RatLess(p, q) == p.num * q.den < q.num * p.den
RatLeq(p, q) == p.num * q.den <= q.num * p.den

\* Math.floor
Floor(p) == p.num \div p.den

\* Math.round: the nearest integer, a tie going up
Round(p) == ((2 * p.num) + p.den) \div (2 * p.den)

(***************************************************************************)
(* z-order.ts                                                              *)
(***************************************************************************)
\* a loop bound that covers 8-bit coordinates only
MortonBitsByte == 8

MortonBits == 16

\* Each iteration i of a loop ORs bits of its own into the result, whatever the
\* earlier iterations left there, so the iterations first..last are evaluated
\* as the OR of the lower half of them and of the upper half.

\* an iteration that puts the bit of y at the even and the bit of x at the odd
\* position
interleaveStepSwapped(x, y, i) ==
    BitOr(ShiftLeft(BitAnd(y, ShiftLeft(1, i)), i),
          ShiftLeft(BitAnd(x, ShiftLeft(1, i)), i + 1))

\* iteration i of interleave: z |= (x & (1 << i)) << i | (y & (1 << i)) << (i + 1)
interleaveStep(x, y, i) ==
    BitOr(ShiftLeft(BitAnd(x, ShiftLeft(1, i)), i),
          ShiftLeft(BitAnd(y, ShiftLeft(1, i)), i + 1))

RECURSIVE interleaveLoop(_, _, _, _)
interleaveLoop(x, y, first, last) ==
    IF first > last THEN 0
    ELSE IF first = last THEN interleaveStep(x, y, first)
    ELSE BitOr(interleaveLoop(x, y, first, (first + last) \div 2),
               interleaveLoop(x, y, ((first + last) \div 2) + 1, last))

interleave(x, y) == interleaveLoop(x, y, 0, MortonBits - 1)

\* an iteration that takes y from the even and x from the odd bit
getZOrderCoordinatesStepSwapped(index, i) ==
    [x |-> ShiftRight(BitAnd(index, ShiftLeft(1, 2 * i + 1)), i + 1),
     y |-> ShiftRight(BitAnd(index, ShiftLeft(1, 2 * i)), i)]

\* iteration i of getZOrderCoordinates:
\* x |= (index & (1 << (2 * i))) >> i;  y |= (index & (1 << (2 * i + 1))) >> (i + 1)
getZOrderCoordinatesStep(index, i) ==
    [x |-> ShiftRight(BitAnd(index, ShiftLeft(1, 2 * i)), i),
     y |-> ShiftRight(BitAnd(index, ShiftLeft(1, 2 * i + 1)), i + 1)]

orCoordinates(c, d) == [x |-> BitOr(c.x, d.x), y |-> BitOr(c.y, d.y)]

RECURSIVE getZOrderCoordinatesLoop(_, _, _)
getZOrderCoordinatesLoop(index, first, last) ==
    IF first > last THEN [x |-> 0, y |-> 0]
    ELSE IF first = last THEN getZOrderCoordinatesStep(index, first)
    ELSE orCoordinates(getZOrderCoordinatesLoop(index, first, (first + last) \div 2),
                       getZOrderCoordinatesLoop(index, ((first + last) \div 2) + 1, last))

getZOrderCoordinates(index) == getZOrderCoordinatesLoop(index, 0, MortonBits - 1)

(***************************************************************************)
(* Round trips through the two Morton functions                            *)
(***************************************************************************)
MaxSmallIndex == 127
MaxSmallCoord == 5

\* indices below 2^30: a dense prefix, every single bit, every run of low
\* bits, and the two alternating patterns 0x15555555 and 0x2AAAAAAA; and
\* indices from 2^30 to 2^31 - 1, whose bit 30 is bit 15 of x
IndexInputs ==
    (0..MaxSmallIndex)
        \cup {2 ^ k : k \in 0..29}
        \cup {(2 ^ k) - 1 : k \in 1..30}
        \cup {357913941, 715827882, 1000000007, 805306368}
        \cup {2 ^ 30, (2 ^ 30) + 4, (2 ^ 30) + 5, 1431655765, MaxInt32}

\* coordinates below 2^16: a dense prefix, every single bit, and patterns
\* with and without bit 15
CoordInputs ==
    (0..MaxSmallCoord)
        \cup {2 ^ k : k \in 0..15}
        \cup {32767, 65535, 21845, 43690, 32769}

MortonIdle ==
    [trip |-> "none", pc |-> "done", index |-> 0, x |-> 0, y |-> 0, z |-> 0,
     rx |-> 0, ry |-> 0]

MortonStart ==
    morton \in
        {[MortonIdle EXCEPT !.trip = "index", !.pc = "start", !.index = n] :
            n \in IndexInputs}
        \cup
        {[MortonIdle EXCEPT !.trip = "coord", !.pc = "start", !.x = c[1], !.y = c[2]] :
            c \in CoordInputs \X CoordInputs}

\* a caller applies getZOrderCoordinates: to the index (index trip) or to
\* the interleaved index z (coordinate trip)
CallGetZOrderCoordinates ==
    \/ /\ morton.trip = "index" /\ morton.pc = "start"
       /\ LET c == getZOrderCoordinates(morton.index)
          IN  morton' = [morton EXCEPT !.x = c.x, !.y = c.y, !.pc = "mid"]
    \/ /\ morton.trip = "coord" /\ morton.pc = "mid"
       /\ LET c == getZOrderCoordinates(morton.z)
          IN  morton' = [morton EXCEPT !.rx = c.x, !.ry = c.y, !.pc = "done"]

\* a caller applies interleave: to the coordinates got from the index
\* (index trip) or to the input pair (coordinate trip)
CallInterleave ==
    \/ /\ morton.trip = "index" /\ morton.pc = "mid"
       /\ morton' = [morton EXCEPT !.z = interleave(morton.x, morton.y), !.pc = "done"]
    \/ /\ morton.trip = "coord" /\ morton.pc = "start"
       /\ morton' = [morton EXCEPT !.z = interleave(morton.x, morton.y), !.pc = "mid"]

MortonNext == (CallGetZOrderCoordinates \/ CallInterleave) /\ UNCHANGED <<win, sizing, rms, query, shade, audio, progress, appVars>>

(***************************************************************************)
(* Window scheduling (processAudio, processMonoMode, processRGBMode)       *)
(***************************************************************************)
\* processAudio: beatsPerSecond, windowsPerSecond
windowsPerSecond(bpm, samplesPerBeat) ==
    RatMul(RatDiv(bpm, Rat(60, 1)), Rat(samplesPerBeat, 1))

\* processAudio: windowIntervalSeconds = 1 / windowsPerSecond
windowIntervalSeconds(bpm, samplesPerBeat) ==
    RatDiv(Rat(1, 1), windowsPerSecond(bpm, samplesPerBeat))

\* an interval rounded to whole samples (an infinite one is left as it is)
windowIntervalSamplesRounded(bpm, samplesPerBeat, sampleRate) ==
    LET exact == RatMul(windowIntervalSeconds(bpm, samplesPerBeat), Rat(sampleRate, 1))
    IN  IF exact.den = 0 THEN exact ELSE Rat(Round(exact), 1)

\* processAudio: windowIntervalSamples = windowIntervalSeconds * sampleRate
windowIntervalSamples(bpm, samplesPerBeat, sampleRate) ==
    RatMul(windowIntervalSeconds(bpm, samplesPerBeat), Rat(sampleRate, 1))

\* a start sample got by stepping a rounded interval i times
startSampleAccumulated(i, interval) == i * Round(interval)

\* the pass loops: startSample = Math.round(i * windowIntervalSamples)
startSample(i, interval) == Round(RatMul(Rat(i, 1), interval))

MaxWindowIndex == 6

WinBpm == {60, 90, 120, 128, 140}
WinSamplesPerBeat == {1, 16, 64}
WinSampleRate == {44100, 48000}
WinIndex == (0..MaxWindowIndex) \cup {1000}

WinIdle ==
    [pc |-> "none", bpm |-> 0, samplesPerBeat |-> 0, sampleRate |-> 0, i |-> 0,
     startSample |-> 0]

WinStart ==
    win \in {[WinIdle EXCEPT !.pc = "start", !.bpm = c[1], !.samplesPerBeat = c[2],
                             !.sampleRate = c[3], !.i = c[4]] :
                c \in WinBpm \X WinSamplesPerBeat \X WinSampleRate \X WinIndex}

\* one iteration of the pass loop positions window i
PositionWindow ==
    /\ win.pc = "start"
    /\ win' = [win EXCEPT
                !.startSample =
                    startSample(win.i, windowIntervalSamples(Rat(win.bpm, 1), win.samplesPerBeat,
                                                             win.sampleRate)),
                !.pc = "done"]
    /\ UNCHANGED <<morton, sizing, rms, query, shade, audio, progress, appVars>>


(***************************************************************************)
(* Canvas sizing (processAudio)                                            *)
(***************************************************************************)
\* the largest k with 2^k <= n, for n >= 1
RECURSIVE FloorLog2(_)
FloorLog2(n) == IF n <= 1 THEN 0 ELSE 1 + FloorLog2(n \div 2)

\* Math.ceil(Math.log2(n)) for n >= 1: the least k with 2^k >= n
RECURSIVE CeilLog2(_)
CeilLog2(n) == IF n <= 1 THEN 0 ELSE 1 + CeilLog2((n + 1) \div 2)

\* Math.ceil(Math.log2(Math.sqrt(n))) for n >= 1: the least k with 4^k >= n
RECURSIVE CeilLog2Sqrt(_)
CeilLog2Sqrt(n) == IF n <= 1 THEN 0 ELSE 1 + CeilLog2Sqrt((n + 3) \div 4)

\* a sizing that gives the extra bit to the height
canvasDimensionsTall(totalWindows) ==
    LET totalBits == CeilLog2(totalWindows)
    IN  [width |-> 2 ^ (totalBits \div 2), height |-> 2 ^ ((totalBits + 1) \div 2)]

\* UI v2: totalBits, xBits = ceil(totalBits / 2), yBits = floor(totalBits / 2)
\* (Math.log2(0) is -Infinity and Math.pow(2, -Infinity) is 0; Math.log2 of a
\* negative count is NaN, and a canvas size or image size of NaN is taken as 0)
canvasDimensions(totalWindows) ==
    LET totalBits == CeilLog2(totalWindows)
        xBits == (totalBits + 1) \div 2
        yBits == totalBits \div 2
    IN  IF totalWindows <= 0 THEN [width |-> 0, height |-> 0]
        ELSE [width |-> 2 ^ xBits, height |-> 2 ^ yBits]

\* a square sizing that rounds the side down
canvasSizeFloor(totalWindows) == 2 ^ (FloorLog2(totalWindows) \div 2)

\* UI v1: dimension = 2 ^ ceil(log2(sqrt(totalWindows))), a square canvas
canvasSize(totalWindows) == 2 ^ CeilLog2Sqrt(totalWindows)

MaxSizedWindows == 70

SizedWindowCounts == (1..MaxSizedWindows) \cup {255, 256, 257, 1000, 1024, 1025}

SizingIdle == [pc |-> "none", totalWindows |-> 0, width |-> 0, height |-> 0]

SizingStart ==
    sizing \in {[SizingIdle EXCEPT !.pc = "start", !.totalWindows = n] :
                    n \in SizedWindowCounts}

\* processAudio of UI v2 sizes the canvas
SizeCanvas ==
    /\ sizing.pc = "start"
    /\ LET d == canvasDimensions(sizing.totalWindows)
       IN  sizing' = [sizing EXCEPT !.pc = "v2", !.width = d.width, !.height = d.height]
    /\ UNCHANGED <<morton, win, rms, query, shade, audio, progress, appVars>>

\* processAudio of UI v1 sizes the canvas
SizeCanvasV1 ==
    /\ sizing.pc = "start"
    /\ LET d == canvasSize(sizing.totalWindows)
       IN  sizing' = [sizing EXCEPT !.pc = "v1", !.width = d, !.height = d]
    /\ UNCHANGED <<morton, win, rms, query, shade, audio, progress, appVars>>

(***************************************************************************)
(* audio-processor.ts: calculateRMSPower                                   *)
(*                                                                         *)
(* A power is kept as the exact mean square under the root: the record     *)
(* [nan, sq] stands for Math.sqrt(sq), or for NaN when nan is TRUE.  The   *)
(* square root is strictly increasing, so maxima, comparisons and the test *)
(* against 0 of powers are those of their mean squares.                    *)
(***************************************************************************)
Min(a, b) == IF a < b THEN a ELSE b
Max(a, b) == IF a > b THEN a ELSE b

PowerOf(n, d) == [nan |-> FALSE, sq |-> Rat(n, d)]
PowerNaN == [nan |-> TRUE, sq |-> Rat(0, 1)]
PowerZero == PowerOf(0, 1)
PowerOne == PowerOf(1, 1)

\* the loop: sum += audioData[i] * audioData[i] for i in startSample..endSample-1
\* (audioData is a 1-based sequence, sample i of the code is audioData[i + 1])
RECURSIVE sumOfSquares(_, _, _)
sumOfSquares(audioData, i, endSample) ==
    IF i >= endSample THEN 0
    ELSE (audioData[i + 1] * audioData[i + 1]) + sumOfSquares(audioData, i + 1, endSample)

\* sum / count under the root: 0 / 0 is NaN, 0 / negative is -0
meanSquare(sum, count) ==
    IF count = 0 THEN PowerNaN
    ELSE IF count < 0 THEN PowerZero
    ELSE PowerOf(sum, count)

\* an RMS that divides by the nominal window size
calculateRMSPowerNominal(audioData, start, windowSize) ==
    LET endSample == Min(start + windowSize, Len(audioData))
    IN  meanSquare(sumOfSquares(audioData, start, endSample), windowSize)

calculateRMSPower(audioData, start, windowSize) ==
    LET endSample == Min(start + windowSize, Len(audioData))
        actualWindowSize == endSample - start
    IN  meanSquare(sumOfSquares(audioData, start, endSample), actualWindowSize)

MaxSamples == 4
MaxWindowSize == 4

SampleValues == {-1, 0, 1, 3, 4}

RECURSIVE SampleArrays(_)
SampleArrays(n) ==
    IF n = 0 THEN {<<>>}
    ELSE LET shorter == SampleArrays(n - 1)
         IN  shorter \cup {Append(a, v) : a \in {b \in shorter : Len(b) = n - 1},
                                          v \in SampleValues}

RmsIdle == [pc |-> "none", audioData |-> <<>>, startSample |-> 0, windowSize |-> 0,
            power |-> PowerZero]

RmsStart ==
    rms \in {[RmsIdle EXCEPT !.pc = "start", !.audioData = c[1], !.startSample = c[2],
                             !.windowSize = c[3]] :
                c \in {d \in (SampleArrays(MaxSamples) \ {<<>>}) \X (0..MaxSamples)
                                \X (1..MaxWindowSize) : d[2] <= Len(d[1])}}

\* a pass loop measures one window
MeasureWindow ==
    /\ rms.pc = "start"
    /\ rms' = [rms EXCEPT
                !.power = calculateRMSPower(rms.audioData, rms.startSample, rms.windowSize),
                !.pc = "done"]
    /\ UNCHANGED <<morton, win, sizing, query, shade, audio, progress, appVars>>

(***************************************************************************)
(* visualizer.ts: powerToColor and redrawCanvas                            *)
(*                                                                         *)
(* A pixel is the record [map, r, g, b, a].  The contents of the Viridis   *)
(* table are data: a pixel coloured from the table keeps the index of its  *)
(* entry in map (NoMap otherwise) in place of the entry's red, green and   *)
(* blue.  An image is [width, height, data]; the pixels are numbered        *)
(* 0 .. width * height - 1 (pixel y * width + x is the four bytes at       *)
(* (y * width + x) * 4 of the code's array) and data is the sequence of    *)
(* the pixels, pixel number p at position p + 1.                           *)
(***************************************************************************)
\* a sequence given as a function on 1..n, as a tuple of its values
Tuple(s) == s \o <<>>

NoMap == -1
NoPixel == -1
ViridisMiddle == 128
ByteMax == 255

Transparent == [map |-> NoMap, r |-> 0, g |-> 0, b |-> 0, a |-> 0]
OpaqueBlack == [map |-> NoMap, r |-> 0, g |-> 0, b |-> 0, a |-> ByteMax]
ViridisPixel(index) == [map |-> index, r |-> 0, g |-> 0, b |-> 0, a |-> ByteMax]
BandsPixel(r, g, b) == [map |-> NoMap, r |-> r, g |-> g, b |-> b, a |-> ByteMax]

Pixels(width, height) == 0 .. ((width * height) - 1)

\* ctx.createImageData: every byte is 0
createImageData(width, height) ==
    [width |-> width, height |-> height,
     data |-> Tuple([j \in 1..(width * height) |-> Transparent])]

\* ctx.putImageData(image, 0, 0): the pixels of the image that fall on the canvas
putImageData(cv, image) ==
    [cv EXCEPT !.data = Tuple([j \in 1..(cv.width * cv.height) |->
        LET x == (j - 1) % cv.width
            y == (j - 1) \div cv.width
        IN  IF x < image.width /\ y < image.height
            THEN image.data[((y * image.width) + x) + 1]
            ELSE cv.data[j]])]

\* Math.max of two powers: NaN if either is NaN
PowerMax(p, q) ==
    IF p.nan \/ q.nan THEN PowerNaN
    ELSE IF RatLess(p.sq, q.sq) THEN q ELSE p

PowerIsZero(p) == (~p.nan) /\ p.sq.num = 0

\* the largest k in lo..hi with k * k * a <= b (lo satisfies it)
RECURSIVE floorRoot(_, _, _, _)
floorRoot(a, b, lo, hi) ==
    IF lo >= hi THEN lo
    ELSE LET mid == ((lo + hi) + 1) \div 2
         IN  IF (mid * mid) * a <= b
             THEN floorRoot(a, b, mid, hi)
             ELSE floorRoot(a, b, lo, mid - 1)

\* a scaling by 256 clamped to the last table index
scaleToByteOf256(power, maxPower) ==
    IF RatLeq(maxPower.sq, power.sq) THEN ByteMax
    ELSE floorRoot(maxPower.sq.num * power.sq.den,
                   (((ByteMax + 1) * (ByteMax + 1)) * power.sq.num) * maxPower.sq.den,
                   0, ByteMax)

\* Math.floor(Math.min(1, power / maxPower) * 255) for numbers power >= 0, maxPower > 0:
\* the largest k with (k / 255)^2 <= power^2 / maxPower^2
scaleToByte(power, maxPower) ==
    IF RatLeq(maxPower.sq, power.sq) THEN ByteMax
    ELSE floorRoot(maxPower.sq.num * power.sq.den,
                   ((ByteMax * ByteMax) * power.sq.num) * maxPower.sq.den, 0, ByteMax)

\* powerToColor with minPower = 0, as every caller passes it: the index of the
\* table entry returned; a NaN index reads undefined from the table and the
\* destructuring of undefined throws
powerToColor(power, minPower, maxPower) ==
    IF (~maxPower.nan) /\ minPower = maxPower
    THEN [throws |-> FALSE, index |-> ViridisMiddle]
    ELSE IF power.nan \/ minPower.nan \/ maxPower.nan
    THEN [throws |-> TRUE, index |-> NoMap]
    ELSE [throws |-> FALSE, index |-> scaleToByte(power, maxPower)]

\* no call of powerToColor
ShadeIdle ==
    [pc |-> "none", power |-> PowerZero, minPower |-> PowerZero, maxPower |-> PowerZero,
     throws |-> FALSE, index |-> NoMap]

\* Math.floor(Math.min(1, bandPower / bandMax) * 255) stored in a clamped byte:
\* NaN is stored as 0, a division of a positive power by 0 is Infinity
bandToByte(bandPower, bandMax) ==
    IF bandPower.nan \/ bandMax.nan THEN 0
    ELSE IF bandMax.sq.num = 0 THEN (IF bandPower.sq.num = 0 THEN 0 ELSE ByteMax)
    ELSE scaleToByte(bandPower, bandMax)

\* getZOrderCoordinates, its results for the small indices computed once
MaxTableIndex == 63

zOrderCoordinatesTable ==
    Tuple([j \in 1..(MaxTableIndex + 1) |-> getZOrderCoordinates(j - 1)])

zOrderCoordinatesOf(index) ==
    IF index >= 0 /\ index < Len(zOrderCoordinatesTable)
    THEN zOrderCoordinatesTable[index + 1]
    ELSE getZOrderCoordinates(index)

\* const index = i + zOrderOffset; getZOrderCoordinates(index): the bitwise
\* operators of getZOrderCoordinates take ToInt32 of the index
plotCoordinates(i, zOrderOffset) ==
    zOrderCoordinatesOf(ToInt32(NumPlus(zOrderOffset, i)))

\* if (x < width && y < height)
insideCanvas(c, width, height) == c.x < width /\ c.y < height

\* the pixel window i writes, NoPixel when it writes none: an assignment to an
\* index outside a typed array is dropped
plotPixel(i, zOrderOffset, width, height) ==
    LET at == plotCoordinates(i, zOrderOffset)
        pixel == (at.y * width) + at.x
    IN  IF insideCanvas(at, width, height) /\ pixel \in Pixels(width, height)
        THEN pixel
        ELSE NoPixel

\* the pixels the windows 0 .. count-1 write, window i at position i + 1
plotPixels(count, zOrderOffset, width, height) ==
    Tuple([j \in 1..count |-> plotPixel(j - 1, zOrderOffset, width, height)])

\* an image after the windows with colours[j] wrote their pixels in order
paint(image, plotted, colours) ==
    [image EXCEPT !.data = Tuple([q \in DOMAIN image.data |->
        LET writers == {j \in DOMAIN plotted : plotted[j] = q - 1}
        IN  IF writers = {} THEN image.data[q]
            ELSE colours[CHOOSE j \in writers : \A k \in writers : k <= j]])]

\* the for loop "Clear to black" of redrawCanvas
clearToBlack(image) ==
    [image EXCEPT !.data = Tuple([q \in DOMAIN image.data |-> OpaqueBlack])]

\* the pixels of table entries
viridisPixels(entries) == Tuple([j \in DOMAIN entries |-> ViridisPixel(entries[j].index)])

monoColours(powers, maxPower) ==
    Tuple([j \in DOMAIN powers |-> powerToColor(powers[j], PowerZero, maxPower)])

\* the three bands scaled by the maximum of the low band alone
bandColoursOneMaximum(low, mid, high, maxRGB) ==
    Tuple([j \in DOMAIN low |-> BandsPixel(bandToByte(low[j], maxRGB.low),
                                           bandToByte(mid[j], maxRGB.low),
                                           bandToByte(high[j], maxRGB.low))])

bandColours(low, mid, high, maxRGB) ==
    Tuple([j \in DOMAIN low |-> BandsPixel(bandToByte(low[j], maxRGB.low),
                                           bandToByte(mid[j], maxRGB.mid),
                                           bandToByte(high[j], maxRGB.high))])

\* which branch of redrawCanvas runs
redrawBranch(st) ==
    IF IsNull(st.cachedPowers) /\ IsNull(st.cachedRGBPowers) THEN "return"
    ELSE IF st.cachedVizMode = "mono" /\ ~IsNull(st.cachedPowers) THEN "mono"
    ELSE IF ~IsNull(st.cachedRGBPowers) THEN "rgb"
    ELSE "black"

redrawCount(st) ==
    CASE redrawBranch(st) = "mono" -> Len(Get(st.cachedPowers))
      [] redrawBranch(st) = "rgb" -> Len(Get(st.cachedRGBPowers).low)
      [] OTHER -> 0

\* the pixel each cached window writes in redrawCanvas
redrawPlotted(st, zOrderOffset) ==
    plotPixels(redrawCount(st), zOrderOffset, st.cachedCanvasWidth, st.cachedCanvasHeight)

\* powerToColor throws for a window that passed the bounds test
redrawThrows(st, zOrderOffset) ==
    /\ redrawBranch(st) = "mono"
    /\ \E j \in 1..redrawCount(st) :
        /\ insideCanvas(plotCoordinates(j - 1, zOrderOffset),
                        st.cachedCanvasWidth, st.cachedCanvasHeight)
        /\ powerToColor(Get(st.cachedPowers)[j], PowerZero, st.maxPowerMono).throws

\* the image redrawCanvas builds from the cache
redrawImage(st, zOrderOffset) ==
    LET blank == clearToBlack(createImageData(st.cachedCanvasWidth, st.cachedCanvasHeight))
        written == redrawPlotted(st, zOrderOffset)
    IN  CASE redrawBranch(st) = "mono" ->
                paint(blank, written,
                      viridisPixels(monoColours(Get(st.cachedPowers), st.maxPowerMono)))
          [] redrawBranch(st) = "rgb" ->
                paint(blank, written,
                      bandColours(Get(st.cachedRGBPowers).low, Get(st.cachedRGBPowers).mid,
                                  Get(st.cachedRGBPowers).high, st.maxPowerRGB))
          [] OTHER -> blank

\* a redraw without a fresh buffer: a pixel no window coloured keeps what the
\* canvas showed
redrawCanvasOver(st, cv, zOrderOffset) ==
    IF redrawBranch(st) = "return" \/ redrawThrows(st, zOrderOffset) THEN cv
    ELSE LET fresh == redrawImage(st, zOrderOffset)
         IN  [cv EXCEPT !.data = Tuple([q \in DOMAIN cv.data |->
                 IF fresh.data[q] = OpaqueBlack THEN cv.data[q] ELSE fresh.data[q]])]

\* redrawCanvas(state, canvas, zOrderOffset): the canvas afterwards
redrawCanvas(st, cv, zOrderOffset) ==
    IF redrawBranch(st) = "return" \/ redrawThrows(st, zOrderOffset) THEN cv
    ELSE putImageData(cv, redrawImage(st, zOrderOffset))

(***************************************************************************)
(* ui-controller2.ts: the application state and the cache a pass commits   *)
(***************************************************************************)
NoBuffer == "none"

InitialState ==
    [audioContext |-> FALSE, audioBuffer |-> NoBuffer, isProcessing |-> FALSE,
     cachedPowers |-> Null, cachedRGBPowers |-> Null,
     cachedCanvasWidth |-> 0, cachedCanvasHeight |-> 0,
     cachedSamplesPerBeat |-> 0, cachedVizMode |-> "mono",
     maxPowerMono |-> PowerOne,
     maxPowerRGB |-> [low |-> PowerOne, mid |-> PowerOne, high |-> PowerOne]]

\* the canvas is hidden until the first pass sizes it
BlankCanvas == [width |-> 0, height |-> 0, data |-> <<>>]

\* canvas.width = ..; canvas.height = ..; ctx.fillRect(0, 0, width, height) with #000000
sizedCanvas(width, height) ==
    [width |-> width, height |-> height,
     data |-> Tuple([j \in 1..(width * height) |-> OpaqueBlack])]

\* no redrawCanvas call; over is what the canvas showed before a call that is
\* looked at on its own; duringPass counts the calls made since processAudio was
\* last entered while a pass runs, started the passes begun, loaded the files chosen
DrawIdle ==
    [pc |-> "none", by |-> "none", zOrderOffset |-> Num(0, 0), plotted |-> <<>>,
     over |-> <<>>, duringPass |-> 0, started |-> 0, loaded |-> 0]

\* a step that does not call redrawCanvas
noDraw(d) ==
    [DrawIdle EXCEPT !.duringPass = d.duringPass, !.started = d.started,
                     !.loaded = d.loaded]

\* powers.reduce((max, p) => Math.max(max, p), 0)
RECURSIVE reduceMax(_, _, _)
reduceMax(powers, j, max) ==
    IF j > Len(powers) THEN max
    ELSE reduceMax(powers, j + 1, PowerMax(max, powers[j]))

\* the maximum a pass stores: the largest recorded power, 1.0 if that is 0
finalMax(powers) ==
    LET max == reduceMax(powers, 1, PowerZero)
    IN  IF PowerIsZero(max) THEN PowerOne ELSE max

\* a commit that stores the powers and the mode and leaves the rest for later
commitMonoArraysOnly(st, powers, canvasWidth, canvasHeight, samplesPerBeat) ==
    [st EXCEPT !.cachedPowers = Some(powers),
               !.cachedRGBPowers = Null,
               !.cachedVizMode = "mono"]

\* the end of processMonoMode before its redraw: maximum, then the cache
commitMono(st, powers, canvasWidth, canvasHeight, samplesPerBeat) ==
    [st EXCEPT !.maxPowerMono = finalMax(powers),
               !.cachedPowers = Some(powers),
               !.cachedRGBPowers = Null,
               !.cachedCanvasWidth = canvasWidth,
               !.cachedCanvasHeight = canvasHeight,
               !.cachedSamplesPerBeat = samplesPerBeat,
               !.cachedVizMode = "mono"]

\* a commit of processRGBMode that leaves the mono cache in place
commitRGBKeepingMono(st, bandPowers, canvasWidth, canvasHeight, samplesPerBeat) ==
    [st EXCEPT !.maxPowerRGB = [low |-> finalMax(bandPowers.low),
                                mid |-> finalMax(bandPowers.mid),
                                high |-> finalMax(bandPowers.high)],
               !.cachedRGBPowers = Some(bandPowers),
               !.cachedCanvasWidth = canvasWidth,
               !.cachedCanvasHeight = canvasHeight,
               !.cachedSamplesPerBeat = samplesPerBeat,
               !.cachedVizMode = "rgb"]

\* the end of processRGBMode before its redraw
commitRGB(st, bandPowers, canvasWidth, canvasHeight, samplesPerBeat) ==
    [st EXCEPT !.maxPowerRGB = [low |-> finalMax(bandPowers.low),
                                mid |-> finalMax(bandPowers.mid),
                                high |-> finalMax(bandPowers.high)],
               !.cachedRGBPowers = Some(bandPowers),
               !.cachedPowers = Null,
               !.cachedCanvasWidth = canvasWidth,
               !.cachedCanvasHeight = canvasHeight,
               !.cachedSamplesPerBeat = samplesPerBeat,
               !.cachedVizMode = "rgb"]

(***************************************************************************)
(* ui-controller2.ts: audio files, form inputs and collaborators           *)
(*                                                                         *)
(* Audio is scaled down: a decoded file is a short sequence of integer     *)
(* samples at FileSampleRate samples per second, and the tempo values are  *)
(* chosen so that the window interval runs from several samples down to    *)
(* half a sample.  The band filter and the beat detector are collaborators *)
(* outside the program: their results are fixed per file (bands) or drawn  *)
(* from a set (tempo, offset), and either may fail.                        *)
(***************************************************************************)
FileSampleRate == 4

Files == {"tone", "quiet"}

\* audioBuffer.getChannelData(0) of a decoded file
Samples(file) ==
    IF file = "tone" THEN <<1, -2, 0, 3>> ELSE <<0, 0>>

\* the result of applyFrequencyFiltering on a decoded file
Bands(file) ==
    [low |-> Samples(file),
     mid |-> Tuple([j \in DOMAIN Samples(file) |-> 0]),
     high |-> Tuple([j \in DOMAIN Samples(file) |->
                        IF j % 2 = 1 THEN Samples(file)[j] ELSE 0])]

\* audioBuffer.duration
duration(file) == Rat(Len(Samples(file)), FileSampleRate)

\* The tempo field and the two selects have no listener: the user may edit them
\* between any two events, so a handler that reads them finds any of their
\* values.  The offset controls and the mode radios have listeners, and their
\* values are kept in `inputs`.
OffsetValues == {Rat(0, 1), Rat(1, 2)}
VizModes == {"mono", "rgb"}

\* the settings of the three found together: a slow coarse one, a fast fine one,
\* and one with a tempo of 0 (the tempo field takes any number); the window
\* interval is then 1 / 0 = Infinity, which Rat holds as 1 over 0
FormValues ==
    {[bpm |-> Rat(120, 1), samplesPerBeat |-> 1, windowSize |-> 2],
     [bpm |-> Rat(240, 1), samplesPerBeat |-> 2, windowSize |-> 2],
     [bpm |-> Rat(0, 1), samplesPerBeat |-> 1, windowSize |-> 2]}

\* what BeatDetector.guess may report
DetectedTempos == {Rat(12004, 100)}
DetectedOffsets == {Rat(4, 10000)}

\* Number.prototype.toFixed(digits) read back by parseFloat: the nearest
\* multiple of 10^-digits, a tie going away from zero
toFixed(r, digits) ==
    LET scale == 10 ^ digits
        n == Round(RatMul(Rat(Abs(r.num), r.den), Rat(scale, 1)))
    IN  Rat(IF r.num < 0 THEN -n ELSE n, scale)

RatNeg(r) == Rat(-r.num, r.den)

InitialInputs == [zOrderOffset |-> Rat(0, 1), mode |-> "mono"]

\* the values a handler reads: the unlistened fields as found, the others as kept
readForm(form, inp) ==
    [bpm |-> form.bpm, samplesPerBeat |-> form.samplesPerBeat,
     windowSize |-> form.windowSize, zOrderOffset |-> inp.zOrderOffset,
     mode |-> inp.mode]

InitialUi ==
    [processButtonDisabled |-> TRUE, detectBpmButtonDisabled |-> TRUE,
     playPauseButtonDisabled |-> TRUE, canvasContainerShown |-> FALSE,
     floatingControlsShown |-> FALSE, reenableTimers |-> 0]

\* Math.round(zOrderOffsetSeconds * windowsPerSecond)
zOrderOffsetWindows(seconds, bpm, samplesPerBeat) ==
    Round(RatMul(seconds, windowsPerSecond(bpm, samplesPerBeat)))

(***************************************************************************)
(* playback.ts: the playback state and the position marker                 *)
(***************************************************************************)
InitialPlayback ==
    [isPlaying |-> FALSE, currentPlaybackTime |-> Rat(0, 1),
     playbackStartOffset |-> Rat(0, 1), playbackStartTime |-> Rat(0, 1),
     contextTime |-> Rat(0, 1)]

InitialOverlay == [marker |-> Null, seek |-> Rat(0, 1)]

\* the audio context before any playback: running or suspended (autoplay
\* policy), no source node, no animation frame requested (`frame`: the
\* callback whose id is in animationFrameId is pending; `stray`: the pending
\* callbacks of updateMarkerWrapper with another id), no startPlayback
\* waiting for audioContext.resume(); `last` is the event handled last: a
\* click on the canvas with the time it was mapped to, an ended event, an
\* animation frame, a settled resume() or another event, and whether the handling met the end of
\* the buffer
\* the progress bar before a pass: no loop entered, nothing reported
ProgressIdle ==
    [pc |-> "none", i |-> 0, totalWindows |-> 0, throwsAt |-> -1, fill |-> [num |-> 0, den |-> 1],
     text |-> 0, suspendedAt |-> <<>>, reported |-> <<>>, redrawn |-> FALSE]

NoEvent == [kind |-> "none", time |-> Null, atEnd |-> FALSE]

AudioIdle == [contextState |-> "running", source |-> 0, nodes |-> <<>>, frame |-> FALSE,
              stray |-> 0,
              resuming |-> <<>>, last |-> NoEvent]

RatAdd(p, q) == Rat((p.num * q.den) + (q.num * p.den), p.den * q.den)
RatSub(p, q) == Rat((p.num * q.den) - (q.num * p.den), p.den * q.den)

\* pausePlayback: the position reached (contextTime is audioContext.currentTime)
pausePlayback(pb) ==
    IF ~pb.isPlaying THEN pb
    ELSE [pb EXCEPT !.currentPlaybackTime =
                        RatAdd(pb.playbackStartOffset,
                               RatSub(pb.contextTime, pb.playbackStartTime)),
                   !.isPlaying = FALSE]

\* getCanvasPositionForTime: null, or the coordinates of the window at `time`
getCanvasPositionForTime(time, bpm, cachedSamplesPerBeat, cachedCanvasWidth, cachedCanvasHeight, zOrderOffset) ==
    IF cachedSamplesPerBeat = 0 \/ cachedCanvasWidth = 0 THEN Null
    ELSE LET windowIndex ==
                 Floor(RatDiv(time, windowIntervalSeconds(bpm, cachedSamplesPerBeat)))
             at == zOrderCoordinatesOf(ToInt32(NumAdd(zOrderOffset, windowIndex)))
         IN  IF at.x >= cachedCanvasWidth \/ at.y >= cachedCanvasHeight THEN Null
             ELSE Some(at)

\* getTimeForCanvasClick: null, or the start time of the window drawn at the
\* pixel (for a window interval above 0; a window index of 2^31 or more is then
\* beyond any duration)
getTimeForCanvasClick(canvasX, canvasY, bpm, cachedSamplesPerBeat, zOrderOffset, audioDuration) ==
    IF cachedSamplesPerBeat = 0 THEN Null
    ELSE LET zOrderIndex == interleave(Floor(canvasX), Floor(canvasY))
             windowIndex == NumMinus(zOrderIndex, zOrderOffset)
             time == RatMul(Rat(windowIndex.v, 1),
                            windowIntervalSeconds(bpm, cachedSamplesPerBeat))
         IN  IF windowIndex.k # 0 THEN Null
             ELSE IF RatLess(time, Rat(0, 1)) \/ RatLess(audioDuration, time) THEN Null
             ELSE Some(time)

\* updateMarkerWrapper with updateMarker while playback is paused: the seek
\* slider and the marker on the overlay
updateMarkerWrapper(st, inp, pb, ov) ==
    IF st.audioBuffer = NoBuffer \/ ~st.audioContext THEN ov
    ELSE LET windows == zOrderOffsetWindows(inp.zOrderOffset, inp.bpm,
                                            st.cachedSamplesPerBeat)
             now == pb.currentPlaybackTime
         IN  [marker |-> getCanvasPositionForTime(now, inp.bpm, st.cachedSamplesPerBeat,
                                                  st.cachedCanvasWidth,
                                                  st.cachedCanvasHeight, Num(0, windows)),
              seek |-> RatMul(RatDiv(now, duration(st.audioBuffer)), Rat(100, 1))]

(***************************************************************************)
(* ui-controller2.ts: a processing pass (processAudio, processMonoMode,    *)
(* processRGBMode) as a coroutine.  A pass is a record of the locals of    *)
(* these functions; pc is where it is suspended: "filtering" at the await  *)
(* of applyFrequencyFiltering, "loop" at the await of requestAnimationFrame*)
(* inside the window loop.  requested holds the maxima stored when         *)
(* processAudio was entered; it is not read by the pass.                   *)
(***************************************************************************)
YieldEvery == 1000

NoBands == [low |-> <<>>, mid |-> <<>>, high |-> <<>>]

\* processAudio up to the mode test: the consts read from the form
newPass(st, inp, caller) ==
    [pc |-> "filtering", caller |-> caller, vizMode |-> inp.mode, bpm |-> inp.bpm,
     samplesPerBeat |-> inp.samplesPerBeat, windowSize |-> inp.windowSize,
     zOrderOffsetSeconds |-> inp.zOrderOffset, buffer |-> st.audioBuffer,
     requested |-> [mono |-> st.maxPowerMono, rgb |-> st.maxPowerRGB],
     zOrderOffset |-> 0, interval |-> Rat(1, 1), totalWindows |-> 0,
     canvasWidth |-> 0, canvasHeight |-> 0, imageData |-> createImageData(0, 0),
     i |-> 0, powers |-> <<>>, bandPowers |-> NoBands,
     tempMaxPower |-> PowerOne,
     tempMaxRGB |-> [low |-> PowerOne, mid |-> PowerOne, high |-> PowerOne]]

\* a window count rounded up instead of down
totalWindowsCeiling(audioLength, interval) ==
    LET q == RatDiv(Rat(audioLength, 1), interval)
    IN  (q.num + q.den - 1) \div q.den

\* totalWindows = Math.floor(audioLength / windowIntervalSamples)
totalWindows(audioLength, interval) == Floor(RatDiv(Rat(audioLength, 1), interval))

\* processAudio from "Calculate window interval" to createImageData
setupPass(p, audioLength) ==
    LET step == windowIntervalSamples(p.bpm, p.samplesPerBeat, FileSampleRate)
        count == totalWindows(audioLength, step)
        dims == canvasDimensions(count)
    IN  [p EXCEPT !.interval = step,
                  !.zOrderOffset = zOrderOffsetWindows(p.zOrderOffsetSeconds, p.bpm,
                                                       p.samplesPerBeat),
                  !.totalWindows = count,
                  !.canvasWidth = dims.width,
                  !.canvasHeight = dims.height,
                  !.imageData = createImageData(dims.width, dims.height)]

\* a provisional maximum that is the first run's 1.0 whatever is stored
tempMaxPowerFirstRun(st) == PowerOne

\* the maximum processMonoMode normalizes provisional pixels with
tempMaxPower(st) == st.maxPowerMono

\* the maxima processRGBMode normalizes provisional pixels with
tempMaxRGB(st) == st.maxPowerRGB

\* the last window the loop runs before it suspends or ends, entered at window i:
\* it suspends after each window whose index is a multiple of YieldEvery
segmentLast(i, count) ==
    Min((((i + YieldEvery) - 1) \div YieldEvery) * YieldEvery, count - 1)

\* calculateRMSPower(data, Math.round(i * windowIntervalSamples), windowSize)
windowPower(data, i, p) ==
    calculateRMSPower(data, startSample(i, p.interval), p.windowSize)

\* the powers array after the loop has run the windows up to `last`
pushPowers(powers, data, last, p) ==
    Tuple([j \in 1..(last + 1) |-> IF j <= Len(powers) THEN powers[j]
                                   ELSE windowPower(data, j - 1, p)])

\* the pixels the windows first..last write
segmentPlotted(p, first, last) ==
    Tuple([j \in 1..(last + 1) |->
        IF j - 1 < first THEN NoPixel
        ELSE plotPixel(j - 1, Num(0, p.zOrderOffset), p.canvasWidth, p.canvasHeight)])

\* one run of the loop of processMonoMode from window p.i to its suspension or end
monoSegment(p) ==
    LET final == segmentLast(p.i, p.totalWindows)
        pushed == pushPowers(p.powers, Samples(p.buffer), final, p)
        entries == monoColours(pushed, p.tempMaxPower)
    IN  [pass |-> [p EXCEPT !.powers = pushed, !.i = final + 1, !.pc = "loop",
                            !.imageData =
                                paint(p.imageData, segmentPlotted(p, p.i, final),
                                      viridisPixels(entries))],
         throws |-> \E j \in (p.i + 1)..(final + 1) :
                        /\ insideCanvas(plotCoordinates(j - 1, Num(0, p.zOrderOffset)),
                                        p.canvasWidth, p.canvasHeight)
                        /\ entries[j].throws,
         suspends |-> final >= p.i /\ final % YieldEvery = 0]

\* one run of the loop of processRGBMode
rgbSegment(p) ==
    LET final == segmentLast(p.i, p.totalWindows)
        bands == Bands(p.buffer)
        pushed == [low |-> pushPowers(p.bandPowers.low, bands.low, final, p),
                   mid |-> pushPowers(p.bandPowers.mid, bands.mid, final, p),
                   high |-> pushPowers(p.bandPowers.high, bands.high, final, p)]
    IN  [pass |-> [p EXCEPT !.bandPowers = pushed, !.i = final + 1, !.pc = "loop",
                            !.imageData =
                                paint(p.imageData, segmentPlotted(p, p.i, final),
                                      bandColours(pushed.low, pushed.mid, pushed.high,
                                                  p.tempMaxRGB))],
         throws |-> FALSE,
         suspends |-> final >= p.i /\ final % YieldEvery = 0]

segment(p) == IF p.vizMode = "mono" THEN monoSegment(p) ELSE rgbSegment(p)

\* processMonoMode / processRGBMode from their entry to the first suspension
enterMode(p, st) ==
    segment([p EXCEPT !.tempMaxPower = tempMaxPower(st), !.tempMaxRGB = tempMaxRGB(st)])

\* the end of a pass function before its redraw: the maxima and the cache;
\* samplesPerBeat is read from the form again
commitPass(st, p, samplesPerBeat) ==
    IF p.vizMode = "mono"
    THEN commitMono(st, p.powers, p.canvasWidth, p.canvasHeight, samplesPerBeat)
    ELSE commitRGB(st, p.bandPowers, p.canvasWidth, p.canvasHeight, samplesPerBeat)

(***************************************************************************)
(* ui-controller2.ts: event handlers and the continuations of their awaits *)
(***************************************************************************)
MaxPending == 1

\* the calls of processAudio that get past its guard
MaxPasses == 2

\* the files chosen
MaxLoads == 2

\* the files chosen and the passes started, together
MaxRequests == 3

\* one more file may be chosen, one more pass may start
MayLoad(d) == d.loaded < MaxLoads /\ d.started + d.loaded < MaxRequests
MayStart(d) == d.started < MaxPasses /\ d.started + d.loaded < MaxRequests

NoPass ==
    [pc |-> "none", vizMode |-> "mono",
     requested |-> [mono |-> PowerOne,
                    rgb |-> [low |-> PowerOne, mid |-> PowerOne, high |-> PowerOne]],
     provisional |-> createImageData(0, 0), zOrderOffset |-> 0, redraws |-> 0,
     buffer |-> NoBuffer]

AppIdle ==
    /\ state = InitialState /\ canvas = BlankCanvas /\ draw = DrawIdle
    /\ inputs = InitialInputs /\ ui = InitialUi /\ passes = <<>> /\ loads = <<>>
    /\ playback = InitialPlayback /\ overlay = InitialOverlay /\ lastPass = NoPass

Without(seq, k) ==
    Tuple([j \in 1..(Len(seq) - 1) |-> IF j < k THEN seq[j] ELSE seq[j + 1]])

HasCache(st) == ~(IsNull(st.cachedPowers) /\ IsNull(st.cachedRGBPowers))

\* redrawCanvas receives the state object and only reads it
redrawState(st, zOrderOffset) == st

\* a redrawCanvas call noted: its caller, its offset, the pixel each window wrote
recordDraw(d, st, zOrderOffset, by) ==
    [pc |-> "done", by |-> by, zOrderOffset |-> zOrderOffset,
     plotted |-> redrawPlotted(st, zOrderOffset), over |-> <<>>,
     duringPass |-> IF st.isProcessing THEN d.duringPass + 1 ELSE d.duringPass,
     started |-> d.started, loaded |-> d.loaded]

\* a rejected processAudio promise: handleDetectBpmClick catches it and
\* re-enables its button, handleProcessClick lets it go
passFailed(u, caller) ==
    IF caller = "detect" THEN [u EXCEPT !.detectBpmButtonDisabled = FALSE] ELSE u

\* processAudio from "Setup canvas" to the first suspension of the window loop;
\* createImageData throws for a canvas without pixels
startLoop(st, u, cv, others, p) ==
    LET sized == sizedCanvas(p.canvasWidth, p.canvasHeight)
        run == enterMode(p, st)
    IN  IF p.canvasWidth * p.canvasHeight = 0 \/ run.throws
        THEN [state |-> st, ui |-> passFailed(u, p.caller), canvas |-> sized,
              passes |-> others]
        ELSE [state |-> st, ui |-> u,
              canvas |-> putImageData(sized, run.pass.imageData),
              passes |-> Append(others, run.pass)]

\* a processAudio that does not test isProcessing
processAudioUnguarded(st, inp, u, cv, ps, caller) ==
    IF st.audioBuffer = NoBuffer
    THEN [state |-> st, ui |-> u, canvas |-> cv, passes |-> ps]
    ELSE LET busy == [st EXCEPT !.isProcessing = TRUE]
             shown == [u EXCEPT !.canvasContainerShown = TRUE]
             fresh == newPass(st, inp, caller)
         IN  IF inp.mode = "rgb"
             THEN [state |-> busy, ui |-> shown, canvas |-> cv,
                   passes |-> Append(ps, fresh)]
             ELSE startLoop(busy, shown, cv, ps,
                            setupPass(fresh, Len(Samples(st.audioBuffer))))

\* processAudio from its entry to its first await
processAudio(st, inp, u, cv, ps, caller) ==
    IF st.isProcessing \/ st.audioBuffer = NoBuffer
    THEN [state |-> st, ui |-> u, canvas |-> cv, passes |-> ps]
    ELSE LET busy == [st EXCEPT !.isProcessing = TRUE]
             shown == [u EXCEPT !.canvasContainerShown = TRUE]
             fresh == newPass(st, inp, caller)
         IN  IF inp.mode = "rgb"
             THEN [state |-> busy, ui |-> shown, canvas |-> cv,
                   passes |-> Append(ps, fresh)]
             ELSE startLoop(busy, shown, cv, ps,
                            setupPass(fresh, Len(Samples(st.audioBuffer))))

\* a call of processAudio as a step of the program
CallProcessAudio(inp, u, pb, caller) ==
    \E r \in {processAudio(state, inp, u, canvas, passes, caller)} :
        /\ state' = r.state
        /\ ui' = r.ui
        /\ canvas' = r.canvas
        /\ passes' = r.passes
        /\ draw' = IF state.isProcessing \/ state.audioBuffer = NoBuffer
                   THEN noDraw(draw)
                   ELSE [noDraw(draw) EXCEPT !.duringPass = 0, !.started = @ + 1]
        /\ inputs' = [zOrderOffset |-> inp.zOrderOffset, mode |-> inp.mode]
        /\ playback' = pb

\* click on Process
HandleProcessClick ==
    /\ ~ui.processButtonDisabled
    /\ MayStart(draw)
    /\ IF state.audioBuffer # NoBuffer /\ ~state.isProcessing
       THEN \E form \in FormValues :
                CallProcessAudio(readForm(form, inputs), ui,
                    [pausePlayback(playback) EXCEPT !.currentPlaybackTime = Rat(0, 1)],
                    "click")
       ELSE /\ draw' = noDraw(draw)
            /\ UNCHANGED <<state, ui, canvas, passes, inputs, playback>>
    /\ lastPass' = NoPass
    /\ UNCHANGED <<morton, win, sizing, rms, query, shade, audio, progress, loads, overlay>>

\* processAudio after `await applyFrequencyFiltering`, fulfilled or rejected
filteringSettled(st, u, cv, ps, k, ok) ==
    IF ok
    THEN startLoop(st, u, cv, Without(ps, k),
                   setupPass(ps[k], Len(Bands(ps[k].buffer).low)))
    ELSE [state |-> st, ui |-> passFailed(u, ps[k].caller), canvas |-> cv,
          passes |-> Without(ps, k)]

\* applyFrequencyFiltering settles: processAudio goes on, or is rejected
FilteringSettles ==
    \E k \in DOMAIN passes : \E ok \in BOOLEAN :
        /\ passes[k].pc = "filtering"
        /\ \E r \in {filteringSettled(state, ui, canvas, passes, k, ok)} :
               /\ state' = r.state
               /\ ui' = r.ui
               /\ canvas' = r.canvas
               /\ passes' = r.passes
        /\ draw' = noDraw(draw)
        /\ lastPass' = NoPass
        /\ UNCHANGED <<morton, win, sizing, rms, query, shade, audio, progress, inputs, loads, playback, overlay>>

\* a pass function from the animation frame its loop waited for: the loop runs
\* on to its next suspension, or to its end, where the pass function commits and
\* redraws and processAudio returns the pipeline to idle
resumePass(st, cv, d, u, pb, ov, inp, ps, k, run) ==
    LET ran == run.pass
        others == Without(ps, k)
        windows == Num(0, ran.zOrderOffset)
        committed == redrawState(commitPass(st, ran, inp.samplesPerBeat), windows)
        idle == [committed EXCEPT !.isProcessing = FALSE]
        rewound == [pb EXCEPT !.currentPlaybackTime = Rat(0, 1)]
        drawn == recordDraw(d, committed, windows, "pass")
        kept == [state |-> st, canvas |-> cv, draw |-> noDraw(d), ui |-> u, playback |-> pb,
                 overlay |-> ov, passes |-> others, lastPass |-> NoPass]
    IN  IF run.throws
        THEN [kept EXCEPT !.ui = passFailed(u, ran.caller)]
        ELSE IF run.suspends
        THEN [kept EXCEPT !.passes = [ps EXCEPT ![k] = ran],
                          !.canvas = putImageData(cv, ran.imageData)]
        ELSE IF redrawThrows(committed, windows)
        THEN [kept EXCEPT !.state = committed,
                          !.ui = passFailed(u, ran.caller),
                          !.draw = drawn]
        ELSE [kept EXCEPT !.state = idle,
                          !.canvas = redrawCanvas(committed, cv, windows),
                          !.draw = drawn,
                          !.ui = [u EXCEPT !.floatingControlsShown = TRUE,
                                           !.playPauseButtonDisabled = FALSE],
                          !.playback = rewound,
                          !.overlay = updateMarkerWrapper(idle, inp, rewound, ov),
                          !.lastPass = [pc |-> "completed", vizMode |-> ran.vizMode,
                                        requested |-> ran.requested,
                                        provisional |-> ran.imageData,
                                        zOrderOffset |-> ran.zOrderOffset,
                                        redraws |-> drawn.duringPass,
                                        buffer |-> ran.buffer]]

\* the animation frame a window loop waits for
PassResumes ==
    \E k \in DOMAIN passes :
        /\ passes[k].pc = "loop"
        /\ \E run \in {segment(passes[k])} : \E form \in FormValues :
           \E r \in {resumePass(state, canvas, draw, ui, playback, overlay,
                                 readForm(form, inputs), passes, k, run)} :
               /\ state' = r.state
               /\ canvas' = r.canvas
               /\ draw' = r.draw
               /\ ui' = r.ui
               /\ playback' = r.playback
               /\ overlay' = r.overlay
               /\ passes' = r.passes
               /\ lastPass' = r.lastPass
        /\ UNCHANGED <<morton, win, sizing, rms, query, shade, audio, progress, inputs, loads>>

\* an offset handler that puts the stored maxima back to 1.0 before it redraws
updateVisualizationWithOffsetResetting(st, inp, cv, d, pb, ov) ==
    LET windows == Num(0, zOrderOffsetWindows(inp.zOrderOffset, inp.bpm,
                                              st.cachedSamplesPerBeat))
        after == [st EXCEPT !.maxPowerMono = PowerOne,
                            !.maxPowerRGB = [low |-> PowerOne, mid |-> PowerOne,
                                             high |-> PowerOne]]
    IN  IF HasCache(st) /\ ~st.isProcessing
        THEN [state |-> after,
              draw |-> recordDraw(d, after, windows, "offset"),
              canvas |-> redrawCanvas(after, cv, windows),
              overlay |-> IF redrawThrows(after, windows) \/ after.audioBuffer = NoBuffer
                          THEN ov
                          ELSE updateMarkerWrapper(after, inp, pb, ov)]
        ELSE [state |-> st, draw |-> noDraw(d), canvas |-> cv, overlay |-> ov]

\* updateVisualizationWithOffset, then updateMarkerWrapper if a buffer is loaded
updateVisualizationWithOffset(st, inp, cv, d, pb, ov) ==
    LET windows == Num(0, zOrderOffsetWindows(inp.zOrderOffset, inp.bpm,
                                              st.cachedSamplesPerBeat))
        after == redrawState(st, windows)
    IN  IF HasCache(st) /\ ~st.isProcessing
        THEN [state |-> after,
              draw |-> recordDraw(d, st, windows, "offset"),
              canvas |-> redrawCanvas(st, cv, windows),
              overlay |-> IF redrawThrows(st, windows) \/ after.audioBuffer = NoBuffer
                          THEN ov
                          ELSE updateMarkerWrapper(after, inp, pb, ov)]
        ELSE [state |-> st, draw |-> noDraw(d), canvas |-> cv, overlay |-> ov]

\* input event of the offset number field or of the offset slider (each handler
\* copies its value to the other control): both call updateVisualizationWithOffset
HandleZOrderOffsetChange ==
    \E value \in OffsetValues : \E form \in FormValues :
        /\ inputs' = [inputs EXCEPT !.zOrderOffset = toFixed(value, 3)]
        /\ lastPass' = NoPass
        /\ UNCHANGED <<morton, win, sizing, rms, query, shade, audio, progress, ui, passes, loads, playback>>
        /\ \E r \in {updateVisualizationWithOffset(
                        state,
                        readForm(form, [inputs EXCEPT !.zOrderOffset = toFixed(value, 3)]),
                        canvas, draw, playback, overlay)} :
               /\ state' = r.state
               /\ draw' = r.draw
               /\ canvas' = r.canvas
               /\ overlay' = r.overlay

\* change event of the mode radio buttons (the handler shows or hides the cutoffs)
HandleModeChange ==
    /\ \E v \in VizModes : inputs' = [inputs EXCEPT !.mode = v]
    /\ draw' = noDraw(draw)
    /\ lastPass' = NoPass
    /\ UNCHANGED <<morton, win, sizing, rms, query, shade, audio, progress, state, canvas, ui, passes, loads,
                   playback, overlay>>

\* the cache of a pass and what belongs to it; the entry of a load in `loads`
\* notes in `before` the cache found when the load was requested
Cache(st) ==
    [cachedPowers |-> st.cachedPowers, cachedRGBPowers |-> st.cachedRGBPowers,
     maxPowerMono |-> st.maxPowerMono, maxPowerRGB |-> st.maxPowerRGB,
     cachedCanvasWidth |-> st.cachedCanvasWidth,
     cachedCanvasHeight |-> st.cachedCanvasHeight,
     cachedSamplesPerBeat |-> st.cachedSamplesPerBeat,
     cachedVizMode |-> st.cachedVizMode]

\* what handleAudioFileChange and handleChangeFile clear
clearAudio(st) ==
    [st EXCEPT !.audioBuffer = NoBuffer, !.cachedPowers = Null, !.cachedRGBPowers = Null]

\* a file is chosen or dropped: handleAudioFileChange up to its first await
HandleAudioFileChange ==
    /\ Len(loads) < MaxPending
    /\ MayLoad(draw)
    /\ \E file \in Files :
           loads' = Append(loads, [pc |-> "decoding", file |-> file,
                                   before |-> Cache(state)])
    /\ ui' = [ui EXCEPT !.processButtonDisabled = TRUE, !.detectBpmButtonDisabled = TRUE,
                        !.playPauseButtonDisabled = TRUE, !.floatingControlsShown = FALSE,
                        !.canvasContainerShown = FALSE]
    /\ playback' = IF state.audioContext THEN pausePlayback(playback) ELSE playback
    /\ state' = [clearAudio(state) EXCEPT !.audioContext = TRUE]
    /\ draw' = [noDraw(draw) EXCEPT !.loaded = @ + 1]
    /\ lastPass' = NoPass
    /\ UNCHANGED <<morton, win, sizing, rms, query, shade, audio, progress, canvas, inputs, passes, overlay>>

\* decoding settles: the buffer is stored and handleDetectBpmClick is entered,
\* or the catch block disables the buttons
DecodeSettles ==
    \E k \in DOMAIN loads : \E ok \in BOOLEAN :
        /\ loads[k].pc = "decoding"
        /\ IF ok
           THEN /\ state' = [state EXCEPT !.audioBuffer = loads[k].file]
                /\ ui' = [ui EXCEPT !.processButtonDisabled = FALSE,
                                    !.detectBpmButtonDisabled = TRUE]
                /\ loads' = [loads EXCEPT ![k].pc = "detecting"]
           ELSE /\ ui' = [ui EXCEPT !.processButtonDisabled = TRUE,
                                    !.detectBpmButtonDisabled = TRUE]
                /\ loads' = Without(loads, k)
                /\ UNCHANGED state
        /\ draw' = noDraw(draw)
        /\ lastPass' = NoPass
        /\ UNCHANGED <<morton, win, sizing, rms, query, shade, audio, progress, canvas, inputs, passes, playback, overlay>>

\* click on Detect BPM: handleDetectBpmClick up to its await
HandleDetectBpmClick ==
    /\ ~ui.detectBpmButtonDisabled
    /\ Len(loads) < MaxPending
    /\ IF state.audioBuffer = NoBuffer
       THEN UNCHANGED <<ui, loads>>
       ELSE /\ ui' = [ui EXCEPT !.detectBpmButtonDisabled = TRUE]
            /\ loads' = Append(loads, [pc |-> "detecting", file |-> state.audioBuffer,
                                    before |-> Cache(state)])
    /\ draw' = noDraw(draw)
    /\ lastPass' = NoPass
    /\ UNCHANGED <<morton, win, sizing, rms, query, shade, audio, progress, state, canvas, inputs, passes, playback,
                   overlay>>

\* BeatDetector.guess settles: the form takes tempo and offset, a timer is set
\* and processAudio is called; or the catch block re-enables the button
DetectionSettles ==
    \E k \in DOMAIN loads :
        /\ loads[k].pc = "detecting"
        /\ loads' = Without(loads, k)
        /\ \/ /\ ui.reenableTimers < MaxPending
              /\ state.isProcessing \/ state.audioBuffer = NoBuffer \/ MayStart(draw)
              /\ \E tempo \in DetectedTempos : \E offset \in DetectedOffsets :
                 \E form \in FormValues :
                    CallProcessAudio(
                        [readForm(form, inputs) EXCEPT
                            !.bpm = toFixed(tempo, 1),
                            !.zOrderOffset = toFixed(RatNeg(offset), 3)],
                        [ui EXCEPT !.reenableTimers = @ + 1],
                        playback, "detect")
           \/ /\ ui' = [ui EXCEPT !.detectBpmButtonDisabled = FALSE]
              /\ draw' = noDraw(draw)
              /\ UNCHANGED <<state, canvas, inputs, passes, playback>>
        /\ lastPass' = NoPass
        /\ UNCHANGED <<morton, win, sizing, rms, query, shade, audio, progress, overlay>>

\* the timer set by a successful detection, two seconds later
DetectButtonTimer ==
    /\ ui.reenableTimers > 0
    /\ ui' = [ui EXCEPT !.reenableTimers = @ - 1, !.detectBpmButtonDisabled = FALSE]
    /\ draw' = noDraw(draw)
    /\ lastPass' = NoPass
    /\ UNCHANGED <<morton, win, sizing, rms, query, shade, audio, progress, state, canvas, inputs, passes, loads,
                   playback, overlay>>

\* click on Change File
HandleChangeFile ==
    /\ state' = clearAudio(state)
    /\ ui' = [ui EXCEPT !.processButtonDisabled = TRUE, !.detectBpmButtonDisabled = TRUE,
                        !.playPauseButtonDisabled = TRUE, !.floatingControlsShown = FALSE,
                        !.canvasContainerShown = FALSE]
    /\ draw' = noDraw(draw)
    /\ lastPass' = NoPass
    /\ UNCHANGED <<morton, win, sizing, rms, query, shade, audio, progress, canvas, inputs, passes, loads, playback,
                   overlay>>

(***************************************************************************)
(* redrawCanvas on the cache of a completed pass, for any offset           *)
(***************************************************************************)
MaxCachedWindows == 3
MaxRenderOffset == 4

RenderPowers == {PowerZero, PowerOf(1, 4), PowerOf(1, 1), PowerOf(4, 1)}

RECURSIVE PowerArrays(_)
PowerArrays(n) ==
    IF n = 0 THEN {<<>>}
    ELSE LET shorter == PowerArrays(n - 1)
         IN  shorter \cup {Append(a, v) : a \in {b \in shorter : Len(b) = n - 1},
                                          v \in RenderPowers}

Reversed(s) == Tuple([j \in DOMAIN s |-> s[(Len(s) + 1) - j]])

\* the states completed passes leave, in either mode
RenderStates ==
    LET arrays == PowerArrays(MaxCachedWindows) \ {<<>>}
        dims(a) == canvasDimensions(Len(a))
    IN  {commitMono(InitialState, a, dims(a).width, dims(a).height, 1) : a \in arrays}
        \cup
        {commitRGB(InitialState,
                   [low |-> a, mid |-> Reversed(a),
                    high |-> Tuple([j \in DOMAIN a |-> PowerZero])],
                   dims(a).width, dims(a).height, 1) : a \in arrays}

\* offsets in windows: small ones, and the ends and multiples of the 32-bit range
RenderOffsets ==
    {Num(0, v) : v \in (-MaxRenderOffset)..MaxRenderOffset}
    \cup {Num(0, MinInt32), Num(0, MaxInt32), Num(-1, 0), Num(-1, MaxInt32), Num(1, 0)}

RenderStart ==
    /\ state \in RenderStates
    /\ canvas = sizedCanvas(state.cachedCanvasWidth, state.cachedCanvasHeight)
    /\ draw \in {[DrawIdle EXCEPT !.pc = "call", !.zOrderOffset = o] : o \in RenderOffsets}
    /\ inputs = InitialInputs /\ ui = InitialUi /\ passes = <<>> /\ loads = <<>>
    /\ playback = InitialPlayback /\ overlay = InitialOverlay /\ lastPass = NoPass

\* a call of redrawCanvas(state, canvas, zOrderOffset)
RedrawCanvas ==
    /\ draw.pc = "call"
    /\ canvas' = redrawCanvas(state, canvas, draw.zOrderOffset)
    /\ draw' = [recordDraw(draw, state, draw.zOrderOffset, "call") EXCEPT !.over = canvas.data]
    /\ state' = redrawState(state, draw.zOrderOffset)
    /\ UNCHANGED <<morton, win, sizing, rms, query, shade, audio, progress, inputs, ui, passes, loads, playback, overlay,
                   lastPass>>

(***************************************************************************)
(* Specifications                                                          *)
(***************************************************************************)
MortonInit ==
    MortonStart /\ win = WinIdle /\ sizing = SizingIdle /\ rms = RmsIdle
    /\ query = QueryIdle /\ shade = ShadeIdle /\ audio = AudioIdle /\ progress = ProgressIdle /\ AppIdle

SpecMorton == MortonInit /\ [][MortonNext]_vars

\* C1: for every index n with 0 <= n < 2^30, interleave applied to the pair
\* returned by getZOrderCoordinates(n) gives n again.
IndexRoundTrip ==
    (morton.trip = "index" /\ morton.pc = "done") => morton.z = morton.index

IndexRoundTripWitness ==
    /\ morton.trip = "index" /\ morton.pc = "done"
    /\ morton.index = 715827882 /\ morton.x = 0 /\ morton.y = 32767

\* C2: for every pair (x, y) with 0 <= x, y < 2^16, getZOrderCoordinates
\* applied to interleave(x, y) returns exactly (x, y).
CoordinateRoundTrip ==
    (morton.trip = "coord" /\ morton.pc = "done")
        => (morton.rx = morton.x /\ morton.ry = morton.y)

WindowNext == PositionWindow

WindowInit ==
    WinStart /\ morton = MortonIdle /\ sizing = SizingIdle /\ rms = RmsIdle
    /\ query = QueryIdle /\ shade = ShadeIdle /\ audio = AudioIdle /\ progress = ProgressIdle /\ AppIdle

SpecWindow == WindowInit /\ [][WindowNext]_vars

\* C3: the start sample of window i is round(i * windowIntervalSamples),
\* within half a sample of i * interval for every i; with bpm 120, 64 samples
\* per beat and 44100 Hz the interval is 344.53125 and window 1000 starts at
\* sample 344531, not at 1000 * 345.
DriftFreeWindowing ==
    win.pc = "done" =>
        LET w == windowIntervalSamples(Rat(win.bpm, 1), win.samplesPerBeat, win.sampleRate)
        IN  /\ Abs((2 * w.den * win.startSample) - (2 * win.i * w.num)) <= w.den
            /\ (win.bpm = 120 /\ win.samplesPerBeat = 64 /\ win.sampleRate = 44100)
                => (w = [num |-> 11025, den |-> 32]
                    /\ (win.i = 1000 => win.startSample = 344531))

DriftFreeWindowingWitness ==
    /\ win.pc = "done" /\ win.bpm = 120 /\ win.samplesPerBeat = 64
    /\ win.sampleRate = 44100 /\ win.i = 1000 /\ win.startSample = 344531

SizingNext == SizeCanvas \/ SizeCanvasV1

SizingInit ==
    SizingStart /\ morton = MortonIdle /\ win = WinIdle /\ rms = RmsIdle
    /\ query = QueryIdle /\ shade = ShadeIdle /\ audio = AudioIdle /\ progress = ProgressIdle /\ AppIdle

SpecSizing == SizingInit /\ [][SizingNext]_vars

\* C4: for every totalWindows >= 1 and the canvas computed for it (v2 and
\* v1), every window index i with 0 <= i < totalWindows maps through
\* getZOrderCoordinates to (x, y) with 0 <= x < width and 0 <= y < height.
CanvasContainment ==
    sizing.pc \in {"v1", "v2"} =>
        \A i \in 0..(sizing.totalWindows - 1) :
            LET c == getZOrderCoordinates(i)
            IN  /\ 0 <= c.x /\ c.x < sizing.width
                /\ 0 <= c.y /\ c.y < sizing.height

CanvasContainmentWitness ==
    /\ sizing.pc = "v2" /\ sizing.totalWindows = 1025
    /\ getZOrderCoordinates(1024) = [x |-> 32, y |-> 0]

IsPowerOfTwo(n) == n >= 1 /\ 2 ^ FloorLog2(n) = n

\* C5: in UI v2 width and height are powers of two, width * height is the
\* smallest power of two >= totalWindows, and width is height or 2 * height;
\* 1000 windows give 32 x 32 and 1025 windows give 64 x 32.
CanvasSizing ==
    sizing.pc = "v2" =>
        /\ IsPowerOfTwo(sizing.width) /\ IsPowerOfTwo(sizing.height)
        /\ sizing.width * sizing.height >= sizing.totalWindows
        /\ \/ sizing.width * sizing.height = 1
           \/ (sizing.width * sizing.height) \div 2 < sizing.totalWindows
        /\ (sizing.width = sizing.height \/ sizing.width = 2 * sizing.height)
        /\ sizing.totalWindows = 1000 => (sizing.width = 32 /\ sizing.height = 32)
        /\ sizing.totalWindows = 1025 => (sizing.width = 64 /\ sizing.height = 32)

CanvasSizingWitness ==
    sizing.pc = "v2" /\ sizing.totalWindows = 1025 /\ sizing.width = 64 /\ sizing.height = 32

RmsNext == MeasureWindow

RmsInit ==
    RmsStart /\ morton = MortonIdle /\ win = WinIdle /\ sizing = SizingIdle
    /\ query = QueryIdle /\ shade = ShadeIdle /\ audio = AudioIdle /\ progress = ProgressIdle /\ AppIdle

SpecRms == RmsInit /\ [][RmsNext]_vars

\* the indices [start, min(start + windowSize, len)) of the code's 0-based array
RmsIndices == rms.startSample .. (Min(rms.startSample + rms.windowSize, Len(rms.audioData)) - 1)

RECURSIVE SquaresOver(_, _)
SquaresOver(a, S) ==
    IF S = {} THEN 0
    ELSE LET i == CHOOSE j \in S : TRUE
         IN  (a[i + 1] * a[i + 1]) + SquaresOver(a, S \ {i})

\* C7: calculateRMSPower takes the mean of squares over exactly the indices
\* [start, min(start + windowSize, len)) and divides by their number, not by
\* windowSize: [1,1,1,1],0,4 gives mean square 1, [0,0,0,0],0,4 gives 0,
\* [3,4],0,2 gives 12.5 and [1,1],1,4 divides by 1.
RmsTruncation ==
    (rms.pc = "done" /\ RmsIndices # {}) =>
        /\ ~rms.power.nan
        /\ rms.power.sq.num * Cardinality(RmsIndices)
                = SquaresOver(rms.audioData, RmsIndices) * rms.power.sq.den
        /\ (rms.audioData = <<1, 1, 1, 1>> /\ rms.startSample = 0 /\ rms.windowSize = 4)
                => rms.power.sq = [num |-> 1, den |-> 1]
        /\ (rms.audioData = <<0, 0, 0, 0>> /\ rms.startSample = 0 /\ rms.windowSize = 4)
                => rms.power.sq = [num |-> 0, den |-> 1]
        /\ (rms.audioData = <<3, 4>> /\ rms.startSample = 0 /\ rms.windowSize = 2)
                => rms.power.sq = [num |-> 25, den |-> 2]
        /\ (rms.audioData = <<1, 1>> /\ rms.startSample = 1 /\ rms.windowSize = 4)
                => rms.power.sq = [num |-> 1, den |-> 1]

RmsTruncationWitness ==
    /\ rms.pc = "done" /\ rms.audioData = <<1, 1>> /\ rms.startSample = 1
    /\ rms.windowSize = 4 /\ rms.power = [nan |-> FALSE, sq |-> [num |-> 1, den |-> 1]]

\* the next call of redrawCanvas on the same cache, at any offset
RedrawAgain ==
    /\ draw.pc = "done"
    /\ \E o \in RenderOffsets :
           draw' = [DrawIdle EXCEPT !.pc = "call", !.zOrderOffset = o]
    /\ UNCHANGED <<morton, win, sizing, rms, query, shade, audio, progress, state, canvas, inputs, ui, passes,
                   loads, playback, overlay, lastPass>>

RenderNext == RedrawCanvas \/ RedrawAgain

RenderInit ==
    /\ RenderStart /\ morton = MortonIdle /\ win = WinIdle /\ sizing = SizingIdle
    /\ rms = RmsIdle /\ query = QueryIdle /\ shade = ShadeIdle /\ audio = AudioIdle /\ progress = ProgressIdle

SpecRender == RenderInit /\ [][RenderNext]_vars

\* C6: a redraw writes a pixel for window i only if the adjusted index i + offset
\* is non-negative and its Morton coordinates lie on the canvas, and then it
\* writes exactly the pixel y * width + x; any other window is skipped, neither
\* clamped nor wrapped onto the canvas
WindowsOffCanvasSkipped ==
    draw.pc = "done" =>
        \A j \in DOMAIN draw.plotted :
            draw.plotted[j] # NoPixel =>
                LET index == NumPlus(draw.zOrderOffset, j - 1)
                    c == getZOrderCoordinates(ToInt32(index))
                IN  /\ ~NumIsNegative(index)
                    /\ 0 <= c.x /\ c.x < state.cachedCanvasWidth
                    /\ 0 <= c.y /\ c.y < state.cachedCanvasHeight
                    /\ draw.plotted[j] = (c.y * state.cachedCanvasWidth) + c.x

PipelineNext ==
    \/ HandleAudioFileChange
    \/ DecodeSettles
    \/ HandleChangeFile
    \/ HandleDetectBpmClick
    \/ DetectionSettles
    \/ DetectButtonTimer
    \/ HandleProcessClick
    \/ FilteringSettles
    \/ PassResumes
    \/ HandleZOrderOffsetChange
    \/ HandleModeChange

PipelineInit ==
    /\ AppIdle /\ morton = MortonIdle /\ win = WinIdle /\ sizing = SizingIdle
    /\ rms = RmsIdle /\ query = QueryIdle /\ shade = ShadeIdle /\ audio = AudioIdle /\ progress = ProgressIdle

SpecPipeline == PipelineInit /\ [][PipelineNext]_vars


\* p <= q for two numbers; false if either is NaN
PowerLeq(p, q) == (~p.nan) /\ (~q.nan) /\ RatLeq(p.sq, q.sq)

\* stored is the largest of the recorded powers, or 1.0 if that is exactly 0
IsFinalizedMaximum(stored, recorded) ==
    \/ /\ \E j \in DOMAIN recorded : recorded[j] = stored
       /\ \A j \in DOMAIN recorded : PowerLeq(recorded[j], stored)
       /\ ~PowerIsZero(stored)
    \/ /\ \A j \in DOMAIN recorded : PowerIsZero(recorded[j])
       /\ stored = PowerOne

StrictlyPositive(p) == (~p.nan) /\ p.sq.num > 0

\* C8: after every completed pass the stored maximum of each channel of the
\* pass is the largest power the pass recorded for it, 1.0 if that is exactly
\* 0; and every stored maximum is strictly positive in every state
FinalizedMaxima ==
    /\ lastPass.pc = "completed" /\ lastPass.vizMode = "mono"
            => IsFinalizedMaximum(state.maxPowerMono, Get(state.cachedPowers))
    /\ lastPass.pc = "completed" /\ lastPass.vizMode = "rgb"
            => \A band \in {"low", "mid", "high"} :
                   IsFinalizedMaximum(state.maxPowerRGB[band],
                                      Get(state.cachedRGBPowers)[band])
    /\ StrictlyPositive(state.maxPowerMono)
    /\ \A band \in {"low", "mid", "high"} : StrictlyPositive(state.maxPowerRGB[band])

\* the image `base` after the first `count` windows of a pass were drawn on it,
\* coloured with the maxima `maxima`
windowsImage(base, vizMode, powers, bandPowers, count, maxima, zOrderOffset) ==
    paint(base,
          plotPixels(count, Num(0, zOrderOffset), base.width, base.height),
          IF vizMode = "mono"
          THEN viridisPixels(monoColours(SubSeq(powers, 1, count), maxima.mono))
          ELSE bandColours(SubSeq(bandPowers.low, 1, count),
                           SubSeq(bandPowers.mid, 1, count),
                           SubSeq(bandPowers.high, 1, count), maxima.rgb))

\* C9: while a pass is in flight the stored maxima are those stored when it
\* began and every pixel of its image is coloured with them; when it has
\* completed, all its provisional pixels were coloured with the maxima stored
\* when it began, the cache is committed, the canvas shows the whole cache
\* coloured with the finalized maxima now stored, redrawCanvas ran exactly
\* once during the pass, and the pipeline is idle
TwoPhaseNormalization ==
    /\ \A k \in DOMAIN passes :
            /\ state.maxPowerMono = passes[k].requested.mono
            /\ state.maxPowerRGB = passes[k].requested.rgb
            /\ passes[k].pc = "loop" =>
                   passes[k].imageData =
                       windowsImage(createImageData(passes[k].canvasWidth,
                                                    passes[k].canvasHeight),
                                    passes[k].vizMode, passes[k].powers,
                                    passes[k].bandPowers, passes[k].i,
                                    passes[k].requested, passes[k].zOrderOffset)
    /\ lastPass.pc = "completed" =>
            /\ HasCache(state)
            /\ state.cachedVizMode = lastPass.vizMode
            /\ lastPass.provisional =
                   windowsImage(createImageData(state.cachedCanvasWidth,
                                                state.cachedCanvasHeight),
                                lastPass.vizMode,
                                IF lastPass.vizMode = "mono"
                                THEN Get(state.cachedPowers) ELSE <<>>,
                                IF lastPass.vizMode = "rgb"
                                THEN Get(state.cachedRGBPowers) ELSE NoBands,
                                redrawCount(state), lastPass.requested,
                                lastPass.zOrderOffset)
            /\ canvas.width = state.cachedCanvasWidth
            /\ canvas.height = state.cachedCanvasHeight
            /\ canvas.data =
                   windowsImage(clearToBlack(createImageData(state.cachedCanvasWidth,
                                                             state.cachedCanvasHeight)),
                                lastPass.vizMode,
                                IF lastPass.vizMode = "mono"
                                THEN Get(state.cachedPowers) ELSE <<>>,
                                IF lastPass.vizMode = "rgb"
                                THEN Get(state.cachedRGBPowers) ELSE NoBands,
                                redrawCount(state),
                                [mono |-> state.maxPowerMono, rgb |-> state.maxPowerRGB],
                                lastPass.zOrderOffset).data
            /\ lastPass.redraws = 1
            /\ ~state.isProcessing

\* a second mono pass has completed: its provisional pixels were coloured with
\* the first pass's maximum, not 1.0, and the final redraw changed the canvas
TwoPhaseNormalizationWitness ==
    /\ lastPass.pc = "completed" /\ lastPass.vizMode = "mono"
    /\ lastPass.requested.mono # PowerOne
    /\ state.maxPowerMono # lastPass.requested.mono
    /\ lastPass.provisional.data # canvas.data

\* C10: an offset-change event, with the redrawCanvas call it makes, leaves the
\* whole application state (the cached powers, the stored maxima, the cached
\* canvas size, cachedSamplesPerBeat, cachedVizMode) as it was and starts no pass
OffsetRedrawPurity ==
    [][HandleZOrderOffsetChange =>
          /\ state' = state
          /\ passes' = passes
          /\ loads' = loads
          /\ canvas'.width = canvas.width /\ canvas'.height = canvas.height]_vars

\* an offset event has redrawn a cache whose maximum is not 1.0 at an offset
\* that is not 0, and a window was drawn
OffsetRedrawPurityWitness ==
    /\ draw.pc = "done" /\ draw.by = "offset"
    /\ draw.zOrderOffset # Num(0, 0)
    /\ HasCache(state) /\ state.maxPowerMono # PowerOne
    /\ \E j \in DOMAIN draw.plotted : draw.plotted[j] # NoPixel

\* C11: at most one pass (filtering or in its window loop) is in flight in
\* every state, a pass in flight has isProcessing set, and a Process click or a
\* settled detection that finds isProcessing set leaves the passes, the
\* application state and the canvas as they were
NoConcurrentRuns ==
    /\ [](Len(passes) <= 1 /\ (passes # <<>> => state.isProcessing))
    /\ [][(state.isProcessing /\ (HandleProcessClick \/ DetectionSettles))
              => (passes' = passes /\ state' = state /\ canvas' = canvas)]_vars

\* the only pass ever started was started by a click on the only file ever
\* chosen and is still in flight, and a detection has settled with success: its
\* call of processAudio found the pass in flight
NoConcurrentRunsWitness ==
    /\ Len(passes) = 1 /\ passes[1].caller = "click" /\ passes[1].pc = "loop"
    /\ draw.started = 1 /\ draw.loaded = 1
    /\ state.audioBuffer = passes[1].buffer
    /\ ui.reenableTimers = 1 /\ loads = <<>>

\* the fields of a cache fit one another as one commit writes them: the array
\* of the cached mode and no other, the canvas size of its number of windows,
\* and the maxima of its powers
CacheOfOnePass(st) ==
    /\ IsNull(st.cachedPowers) # IsNull(st.cachedRGBPowers)
    /\ (st.cachedVizMode = "mono") = IsNull(st.cachedRGBPowers)
    /\ st.cachedSamplesPerBeat \in {form.samplesPerBeat : form \in FormValues}
    /\ IF st.cachedVizMode = "mono"
       THEN LET powers == Get(st.cachedPowers)
            IN  /\ st.cachedCanvasWidth = canvasDimensions(Len(powers)).width
                /\ st.cachedCanvasHeight = canvasDimensions(Len(powers)).height
                /\ st.maxPowerMono = finalMax(powers)
       ELSE LET bands == Get(st.cachedRGBPowers)
            IN  /\ Len(bands.mid) = Len(bands.low) /\ Len(bands.high) = Len(bands.low)
                /\ st.cachedCanvasWidth = canvasDimensions(Len(bands.low)).width
                /\ st.cachedCanvasHeight = canvasDimensions(Len(bands.low)).height
                /\ \A band \in {"low", "mid", "high"} :
                       st.maxPowerRGB[band] = finalMax(bands[band])

MaxQueryWindows == 5
MaxQueryTicks == 44
QueryTickRate == 16

QueryTempos == {Rat(120, 1), Rat(240, 1)}
QuerySamplesPerBeat == {0, 1, 2}
QueryOffsets == {Num(0, 0), Num(0, 1), Num(0, 3), Num(0, -1), Num(1, 0), Num(-1, 0)}
QueryTimes == {Rat(j, QueryTickRate) : j \in (-2)..MaxQueryTicks}

\* the settings of a query: the cache of a pass of n windows, whose audio is
\* n window intervals long
QuerySettings ==
    {[QueryIdle EXCEPT
        !.bpm = bpm, !.cachedSamplesPerBeat = samplesPerBeat,
        !.cachedCanvasWidth = canvasDimensions(n).width,
        !.cachedCanvasHeight = canvasDimensions(n).height,
        !.zOrderOffset = offset,
        !.audioDuration = IF samplesPerBeat = 0 THEN Rat(n, 1)
                          ELSE RatMul(Rat(n, 1), windowIntervalSeconds(bpm, samplesPerBeat))] :
        bpm \in QueryTempos, samplesPerBeat \in QuerySamplesPerBeat,
        n \in 1..MaxQueryWindows, offset \in QueryOffsets}

\* a click lands on a pixel of the canvas, anywhere inside it
QueryClicks(q) ==
    {<<Rat(i, 2), Rat(j, 2)>> : i \in 0..((2 * q.cachedCanvasWidth) - 1),
                                j \in 0..((2 * q.cachedCanvasHeight) - 1)}

QueryStart ==
    query \in
        {[q EXCEPT !.trip = "time", !.pc = "start", !.time = t] :
            q \in QuerySettings, t \in QueryTimes}
        \cup
        UNION {{[q EXCEPT !.trip = "click", !.pc = "start",
                          !.canvasX = c[1], !.canvasY = c[2]] : c \in QueryClicks(q)} :
                    q \in QuerySettings}

\* updateMarker asks for the pixel of a time
CallGetCanvasPositionForTime ==
    /\ query.trip = "time" /\ query.pc = "start"
    /\ \E at \in {getCanvasPositionForTime(query.time, query.bpm,
                                            query.cachedSamplesPerBeat,
                                            query.cachedCanvasWidth,
                                            query.cachedCanvasHeight,
                                            query.zOrderOffset)} :
           query' = [query EXCEPT !.position = at,
                                  !.pc = IF IsNull(at) THEN "done" ELSE "mid"]

\* handleCanvasClick asks for the time of a pixel: the pixel clicked, or the
\* pixel the marker was put on
CallGetTimeForCanvasClick ==
    \/ /\ query.trip = "click" /\ query.pc = "start"
       /\ query' = [query EXCEPT
                       !.clickTime = getTimeForCanvasClick(
                                        query.canvasX, query.canvasY, query.bpm,
                                        query.cachedSamplesPerBeat, query.zOrderOffset,
                                        query.audioDuration),
                       !.pc = "done"]
    \/ /\ query.trip = "time" /\ query.pc = "mid"
       /\ query' = [query EXCEPT
                       !.canvasX = Rat(Get(query.position).x, 1),
                       !.canvasY = Rat(Get(query.position).y, 1),
                       !.clickTime = getTimeForCanvasClick(
                                        Rat(Get(query.position).x, 1),
                                        Rat(Get(query.position).y, 1), query.bpm,
                                        query.cachedSamplesPerBeat, query.zOrderOffset,
                                        query.audioDuration),
                       !.pc = "done"]

QueryNext ==
    (CallGetCanvasPositionForTime \/ CallGetTimeForCanvasClick)
        /\ UNCHANGED <<morton, win, sizing, rms, shade, audio, progress, appVars>>

QueryInit ==
    /\ QueryStart /\ morton = MortonIdle /\ win = WinIdle /\ sizing = SizingIdle
    /\ rms = RmsIdle /\ shade = ShadeIdle /\ audio = AudioIdle /\ progress = ProgressIdle /\ AppIdle

SpecQuery == QueryInit /\ [][QueryNext]_vars

\* the window interval of a query in seconds
QueryInterval == windowIntervalSeconds(query.bpm, query.cachedSamplesPerBeat)

\* C18: when getCanvasPositionForTime gives a pixel for a time t with
\* 0 <= t < duration, getTimeForCanvasClick at that pixel gives
\* floor(t / interval) * interval, a time t' with t - interval < t' <= t
TimeCoordinateInverse ==
    (/\ query.trip = "time" /\ query.pc = "done" /\ ~IsNull(query.position)
     /\ RatLeq(Rat(0, 1), query.time) /\ RatLess(query.time, query.audioDuration))
        => /\ ~IsNull(query.clickTime)
           /\ Get(query.clickTime)
                  = RatMul(Rat(Floor(RatDiv(query.time, QueryInterval)), 1), QueryInterval)
           /\ RatLeq(Get(query.clickTime), query.time)
           /\ RatLess(query.time, RatAdd(Get(query.clickTime), QueryInterval))

\* C19: getCanvasPositionForTime gives null for every time below 0 or above
\* the audio duration, and a time getTimeForCanvasClick gives is neither below
\* 0 nor above the audio duration
OutOfRangeQueriesGiveNull ==
    /\ (/\ query.trip = "time" /\ query.pc \in {"mid", "done"}
        /\ (RatLess(query.time, Rat(0, 1)) \/ RatLess(query.audioDuration, query.time)))
            => IsNull(query.position)
    /\ (query.trip = "click" /\ query.pc = "done" /\ ~IsNull(query.clickTime))
            => /\ RatLeq(Rat(0, 1), Get(query.clickTime))
               /\ RatLeq(Get(query.clickTime), query.audioDuration)

\* the powers a pass over `data` with the settings `form` records for n windows
powersOf(data, form, n) ==
    pushPowers(<<>>, data, n - 1,
               [interval |-> windowIntervalSamples(form.bpm, form.samplesPerBeat,
                                                   FileSampleRate),
                windowSize |-> form.windowSize])

\* the settings a pass can start with: those of the form, or the tempo of a
\* detection with the rest of the form
PassSettings ==
    {[bpm |-> bpm, samplesPerBeat |-> form.samplesPerBeat, windowSize |-> form.windowSize] :
        bpm \in {found.bpm : found \in FormValues}
                    \cup {toFixed(tempo, 1) : tempo \in DetectedTempos},
        form \in FormValues}

\* the cache of st holds what a pass over the file `file` with the settings
\* `form` records
CacheBuiltWith(st, file, form) ==
    /\ form.bpm.num > 0
    /\ IF st.cachedVizMode = "mono" /\ ~IsNull(st.cachedPowers)
       THEN Get(st.cachedPowers)
                = powersOf(Samples(file), form, Len(Get(st.cachedPowers)))
       ELSE /\ ~IsNull(st.cachedRGBPowers)
            /\ \A band \in {"low", "mid", "high"} :
                   Get(st.cachedRGBPowers)[band]
                       = powersOf(Bands(file)[band], form,
                                  Len(Get(st.cachedRGBPowers)[band]))

CacheComputedFrom(st, file) == \E form \in PassSettings : CacheBuiltWith(st, file, form)

\* C13: whenever a cache is present a file is loaded and the cache holds powers
\* computed from that file, and a pass that commits has read the file that is
\* loaded when it commits
StalePassDiscarded ==
    /\ HasCache(state) =>
            (state.audioBuffer # NoBuffer /\ CacheComputedFrom(state, state.audioBuffer))
    /\ lastPass.pc = "completed" => lastPass.buffer = state.audioBuffer

\* the decoding awaited by load k is rejected in this step
DecodingFails(k) ==
    loads[k].pc = "decoding" /\ DecodeSettles /\ loads' = Without(loads, k)

\* applyFrequencyFiltering awaited by pass k is rejected in this step
FilteringFails(k) ==
    /\ passes[k].pc = "filtering" /\ FilteringSettles
    /\ passes' = Without(passes, k) /\ canvas' = canvas

\* C17: when the decoding of a chosen file fails a cache that
\* was there when the file was chosen is there as it was, and when the band splitting of a pass fails the cache is
\* as it was and no window of the pass has been drawn
CollaboratorFailureKeepsCache ==
    [][/\ \A k \in DOMAIN loads :
              (DecodingFails(k) /\ ~(/\ IsNull(loads[k].before.cachedPowers)
                                       /\ IsNull(loads[k].before.cachedRGBPowers)))
                  => Cache(state') = loads[k].before
       /\ \A k \in DOMAIN passes :
              FilteringFails(k) => Cache(state') = Cache(state)]_vars

\* C14: a change of the mode leaves no cache behind, and a redraw made by an
\* offset event counts the offset in windows with the tempo and the samples per
\* beat of settings the cache was built with
CacheInvalidation ==
    [][/\ (HandleModeChange /\ inputs'.mode # inputs.mode) => ~HasCache(state')
       /\ (HandleZOrderOffsetChange /\ draw'.pc = "done") =>
              \E file \in Files : \E form \in PassSettings :
                  /\ CacheBuiltWith(state, file, form)
                  /\ draw'.zOrderOffset =
                         Num(0, zOrderOffsetWindows(inputs'.zOrderOffset, form.bpm,
                                                    form.samplesPerBeat))]_vars

\* C15: isProcessing is set only while a pass is in flight, whose last step
\* clears it: no state is left busy with nothing running
PipelineReturnsToIdle == state.isProcessing => passes # <<>>

\* a click on Process that finds a tempo of 0 or less in the form
InvalidStart ==
    /\ ~ui.processButtonDisabled /\ MayStart(draw)
    /\ state.audioBuffer # NoBuffer /\ ~state.isProcessing
    /\ \E form \in FormValues :
           /\ form.bpm.num <= 0
           /\ CallProcessAudio(readForm(form, inputs), ui,
                  [pausePlayback(playback) EXCEPT !.currentPlaybackTime = Rat(0, 1)],
                  "click")

\* C16: a start request with a tempo of 0 or less leaves the application state
\* (isProcessing, the cache, the maxima), the canvas and the passes as they
\* were, and no pass in flight has such a tempo
InvalidConfigurationRejected ==
    /\ [](\A k \in DOMAIN passes : passes[k].bpm.num > 0)
    /\ [][InvalidStart => (state' = state /\ canvas' = canvas /\ passes' = passes)]_vars

\* k is the byte that holds Math.floor(Math.min(1, power / max) * 255): 255 when
\* power >= max, else the k with k / 255 <= power / max < (k + 1) / 255; a NaN
\* (a NaN power or maximum, or 0 / 0) is held as 0
IsBandByte(k, power, max) ==
    IF power.nan \/ max.nan \/ (power.sq.num = 0 /\ max.sq.num = 0) THEN k = 0
    ELSE /\ k \in 0..ByteMax
         /\ ((k * k) * max.sq.num) * power.sq.den
                <= (((ByteMax * ByteMax) * power.sq.num) * max.sq.den)
         /\ \/ k = ByteMax
            \/ (((ByteMax * ByteMax) * power.sq.num) * max.sq.den)
                    < ((((k + 1) * (k + 1)) * max.sq.num) * power.sq.den)

\* every pixel of `data` that a window of `plotted` wrote last holds the bytes
\* of that window's three powers, each scaled by the maximum of its own band
BandsWritten(data, plotted, bands, maxima) ==
    \A j \in DOMAIN plotted :
        (/\ plotted[j] # NoPixel
         /\ \A l \in DOMAIN plotted : l > j => plotted[l] # plotted[j])
            => LET px == data[plotted[j] + 1]
               IN  /\ px.map = NoMap /\ px.a = ByteMax
                   /\ IsBandByte(px.r, bands.low[j], maxima.low)
                   /\ IsBandByte(px.g, bands.mid[j], maxima.mid)
                   /\ IsBandByte(px.b, bands.high[j], maxima.high)

\* C20: every pixel written in rgb mode, by the window loop of a pass and by
\* redrawCanvas, has red = floor(min(1, low / maxLow) * 255), green and blue
\* likewise from the mid and the high band, each in 0..255 and each from the
\* power and the maximum of its own band only, and alpha 255
RGBColourMapping ==
    /\ \A k \in DOMAIN passes :
           (passes[k].pc = "loop" /\ passes[k].vizMode = "rgb") =>
               BandsWritten(passes[k].imageData.data,
                            plotPixels(passes[k].i, Num(0, passes[k].zOrderOffset),
                                       passes[k].canvasWidth, passes[k].canvasHeight),
                            passes[k].bandPowers, passes[k].requested.rgb)
    /\ (draw.pc = "done" /\ redrawBranch(state) = "rgb") =>
           BandsWritten(canvas.data, draw.plotted, Get(state.cachedRGBPowers),
                        state.maxPowerRGB)

\* a redraw of an rgb cache has written a pixel whose red lies strictly between
\* 0 and 255, whose green is 0 and whose blue differs from its red
RGBColourMappingWitness ==
    /\ draw.pc = "done" /\ redrawBranch(state) = "rgb"
    /\ state.maxPowerRGB.low # state.maxPowerRGB.high
    /\ \E j \in DOMAIN draw.plotted :
           /\ draw.plotted[j] # NoPixel
           /\ canvas.data[draw.plotted[j] + 1].r \in 1..(ByteMax - 1)
           /\ canvas.data[draw.plotted[j] + 1].g = 0
           /\ canvas.data[draw.plotted[j] + 1].b # canvas.data[draw.plotted[j] + 1].r
           /\ canvas.data[draw.plotted[j] + 1].b # 0
           /\ canvas.data[draw.plotted[j] + 1].a = ByteMax

(***************************************************************************)
(* powerToColor on any power and any range that starts at 0 or is          *)
(* degenerate                                                              *)
(***************************************************************************)
ShadePowers ==
    {PowerZero, PowerOf(1, 16), PowerOf(1, 4), PowerOf(1, 2), PowerOne, PowerOf(4, 1),
     PowerOf(9, 1), PowerNaN}

ShadeStart ==
    shade \in {[ShadeIdle EXCEPT !.pc = "start", !.power = c[1], !.minPower = c[2],
                                 !.maxPower = c[3]] :
                  c \in {d \in ShadePowers \X ShadePowers \X ShadePowers :
                            d[2] \in {PowerZero, PowerNaN, d[3]}}}

\* a call of powerToColor(power, minPower, maxPower)
CallPowerToColor ==
    /\ shade.pc = "start"
    /\ \E colour \in {powerToColor(shade.power, shade.minPower, shade.maxPower)} :
           shade' = [shade EXCEPT !.pc = "done", !.throws = colour.throws,
                                  !.index = colour.index]
    /\ UNCHANGED <<morton, win, sizing, rms, query, audio, progress, appVars>>

ShadeNext == CallPowerToColor

ShadeInit ==
    /\ ShadeStart /\ morton = MortonIdle /\ win = WinIdle /\ sizing = SizingIdle
    /\ rms = RmsIdle /\ query = QueryIdle /\ audio = AudioIdle /\ progress = ProgressIdle /\ AppIdle

SpecShade == ShadeInit /\ [][ShadeNext]_vars

\* C21: powerToColor never throws and returns an entry of the 256-entry table,
\* and the entry is number 128 whenever the normalized value is NaN (a NaN
\* power, minimum or maximum) or the range is degenerate (minPower = maxPower)
DegenerateMidpoint ==
    shade.pc = "done" =>
        /\ ~shade.throws
        /\ shade.index \in 0..ByteMax
        /\ (\/ shade.power.nan \/ shade.minPower.nan \/ shade.maxPower.nan
            \/ shade.minPower = shade.maxPower) => shade.index = ViridisMiddle

\* the windows of the cache whose adjusted index has the Morton coordinates of
\* pixel q of the cached canvas
WritersOf(st, zOrderOffset, q) ==
    {j \in 1..redrawCount(st) :
        LET c == getZOrderCoordinates(ToInt32(NumPlus(zOrderOffset, j - 1)))
        IN  /\ 0 <= c.x /\ c.x < st.cachedCanvasWidth
            /\ 0 <= c.y /\ c.y < st.cachedCanvasHeight
            /\ (c.y * st.cachedCanvasWidth) + c.x = q}

\* what the cache and the offset alone say pixel q shows: the colour of the last
\* window that falls on it, opaque black if none does
RenderedPixel(st, zOrderOffset, q) ==
    LET writers == WritersOf(st, zOrderOffset, q)
        j == CHOOSE w \in writers : \A v \in writers : v <= w
    IN  IF writers = {} THEN OpaqueBlack
        ELSE IF redrawBranch(st) = "mono"
        THEN ViridisPixel(powerToColor(Get(st.cachedPowers)[j], PowerZero,
                                       st.maxPowerMono).index)
        ELSE BandsPixel(bandToByte(Get(st.cachedRGBPowers).low[j], st.maxPowerRGB.low),
                        bandToByte(Get(st.cachedRGBPowers).mid[j], st.maxPowerRGB.mid),
                        bandToByte(Get(st.cachedRGBPowers).high[j], st.maxPowerRGB.high))

\* C22: after every call of redrawCanvas the pixel buffer of the canvas is the
\* one the cache, the stored maxima and the offset of the call determine,
\* whatever the canvas showed before: two calls on the same cache with the same
\* offset give the same buffer
RenderDeterminism ==
    draw.pc = "done" =>
        /\ canvas.width = state.cachedCanvasWidth
        /\ canvas.height = state.cachedCanvasHeight
        /\ Len(canvas.data) = state.cachedCanvasWidth * state.cachedCanvasHeight
        /\ \A q \in Pixels(state.cachedCanvasWidth, state.cachedCanvasHeight) :
               canvas.data[q + 1] = RenderedPixel(state, draw.zOrderOffset, q)

\* a call has redrawn a canvas that showed the same cache at another offset: a
\* pixel that was coloured before the call is black after it
RenderDeterminismWitness ==
    /\ draw.pc = "done" /\ Len(draw.over) = Len(canvas.data)
    /\ \E j \in DOMAIN draw.plotted : draw.plotted[j] # NoPixel
    /\ \E q \in DOMAIN canvas.data :
           /\ draw.over[q] # OpaqueBlack /\ draw.over[q] # ViridisPixel(0)
           /\ canvas.data[q] = OpaqueBlack

\* bit k (0..31) of a 32-bit integer in two's complement, by division
BitOf(v, k) ==
    IF k = 31 THEN (IF v < 0 THEN 1 ELSE 0)
    ELSE ((IF v < 0 THEN v - MinInt32 ELSE v) \div (2 ^ k)) % 2

\* C23: getZOrderCoordinates(n) returns x whose bit k is bit 2k of n and y whose
\* bit k is bit 2k + 1 of n for k = 0..15, both within 0..65535; interleave(x, y)
\* has bit k of x at position 2k and bit k of y at position 2k + 1
BitLayout ==
    /\ (morton.trip = "index" /\ morton.pc \in {"mid", "done"}) =>
           /\ morton.x \in 0..65535 /\ morton.y \in 0..65535
           /\ \A k \in 0..15 :
                  /\ BitOf(morton.x, k) = BitOf(morton.index, 2 * k)
                  /\ BitOf(morton.y, k) = BitOf(morton.index, (2 * k) + 1)
    /\ (morton.trip = "coord" /\ morton.pc \in {"mid", "done"}) =>
           \A k \in 0..15 :
               /\ BitOf(morton.z, 2 * k) = BitOf(morton.x, k)
               /\ BitOf(morton.z, (2 * k) + 1) = BitOf(morton.y, k)

\* interleave(5, 3) = 27: 101 and 011 interleaved are 11011
BitLayoutWitness ==
    /\ morton.trip = "coord" /\ morton.pc = "mid"
    /\ morton.x = 5 /\ morton.y = 3 /\ morton.z = 27

\* the length of the signal a pass works on
SignalLength(p) ==
    IF p.vizMode = "mono" THEN Len(Samples(p.buffer)) ELSE Len(Bands(p.buffer).low)

\* floor(signalLength / (sampleRate / ((bpm / 60) * samplesPerBeat))) in whole
\* numbers: floor(signalLength * bpm * samplesPerBeat / (60 * sampleRate))
ExpectedWindows(p) ==
    ((SignalLength(p) * p.bpm.num) * p.samplesPerBeat)
        \div ((60 * FileSampleRate) * p.bpm.den)

\* the number of entries of the cache
CachedWindows(st) ==
    IF st.cachedVizMode = "mono" /\ ~IsNull(st.cachedPowers)
    THEN Len(Get(st.cachedPowers))
    ELSE Len(Get(st.cachedRGBPowers).low)

MarkerTracksImage ==
    (/\ draw.pc = "done" /\ ~state.isProcessing /\ HasCache(state)
     /\ state.audioBuffer # NoBuffer /\ state.audioContext
     /\ ~redrawThrows(state, draw.zOrderOffset)
     /\ ~playback.isPlaying /\ playback.currentPlaybackTime = Rat(0, 1)
     /\ draw.plotted # <<>>)
        => IF draw.plotted[1] = NoPixel THEN IsNull(overlay.marker)
           ELSE /\ ~IsNull(overlay.marker)
                /\ (Get(overlay.marker).y * state.cachedCanvasWidth) + Get(overlay.marker).x
                       = draw.plotted[1]

(***************************************************************************)
(* playback.ts driven by the handlers of ui-controller2.ts: the source     *)
(* nodes, their ended events, the animation frame and the context clock    *)
(***************************************************************************)
\* the source nodes startPlayback creates in one run
MaxSources == 2

\* the advances of audioContext.currentTime in one run
MaxPlaybackTicks == 2

\* the calls of startPlayback that wait for audioContext.resume() at a time
MaxResuming == 2

\* the pending animation frame callbacks whose id is no longer held
MaxStrayFrames == 1

\* one advance of audioContext.currentTime, in seconds
PlaybackTick == Rat(1, 2)

\* createBufferSource, connected, with the onended handler of startPlayback
\* assigned; `stopped` records a stop() before the ended event, `ran` that the
\* handler was invoked
NewSource(endAt) ==
    [status |-> "idle", onended |-> TRUE, endAt |-> endAt, stopped |-> FALSE, ran |-> FALSE,
     disconnected |-> FALSE]

\* source.disconnect()
disconnectSource(node) == [node EXCEPT !.disconnected = TRUE]

\* source.stop() inside try/catch: a playing source stops and its ended event
\* is queued; stop() on a source never started throws and is caught
stopSource(node) ==
    IF node.status \in {"playing", "idle"}
    THEN [node EXCEPT !.status = IF @ = "playing" THEN "stopped" ELSE @, !.stopped = TRUE]
    ELSE node

\* stopPlayback with a source that keeps its onended handler
stopPlaybackKeepingHandler(au) ==
    [au EXCEPT !.nodes = IF au.source = 0 THEN @
                         ELSE [@ EXCEPT ![au.source] = disconnectSource(stopSource(@))],
               !.source = 0, !.frame = FALSE]

\* stopPlayback: the handler is cleared, the source stopped, disconnected and
\* dropped, the animation frame cancelled
stopPlayback(au) ==
    [au EXCEPT !.nodes = IF au.source = 0 THEN @
                         ELSE [@ EXCEPT ![au.source] =
                                            disconnectSource(
                                                stopSource([@ EXCEPT !.onended = FALSE]))],
               !.source = 0, !.frame = FALSE]

\* playbackState.animationFrameId = requestAnimationFrame(updateMarkerWrapper):
\* a callback still pending under the id that is overwritten stays pending
requestFrame(au) ==
    [au EXCEPT !.frame = TRUE, !.stray = IF au.frame THEN @ + 1 ELSE @]

\* the position playback has reached: playbackStartOffset + elapsed time
reachedTime(pb) ==
    RatAdd(pb.playbackStartOffset, RatSub(pb.contextTime, pb.playbackStartTime))

\* updateMarkerWrapper with updateMarker in any playback state: at or past the
\* end of the buffer a playing state is paused (pausePlayback, stopPlayback);
\* the marker is drawn at the time shown, and a frame is requested while
\* playback goes on
markerUpdate(st, inp, pb, au, ov) ==
    IF st.audioBuffer = NoBuffer \/ ~st.audioContext
    THEN [playback |-> pb, audio |-> au, overlay |-> ov, atEnd |-> FALSE]
    ELSE LET atEnd == pb.isPlaying /\ RatLeq(duration(st.audioBuffer), reachedTime(pb))
             time == IF ~pb.isPlaying THEN pb.currentPlaybackTime
                     ELSE IF atEnd THEN duration(st.audioBuffer) ELSE reachedTime(pb)
             paused == IF atEnd THEN pausePlayback(pb) ELSE pb
             halted == IF atEnd THEN stopPlayback(au) ELSE au
         IN  [playback |-> paused,
              audio |-> IF paused.isPlaying THEN requestFrame(halted) ELSE halted,
              overlay |-> updateMarkerWrapper(st, inp,
                                              [pb EXCEPT !.currentPlaybackTime = time], ov),
              atEnd |-> atEnd]

\* startPlayback once the context runs, without its stopPlayback: the old
\* source is left as it is, a new one created and started
startSourceWithoutStop(st, inp, pb, au, ov, fromTime) ==
    LET halted == au
        remaining == RatSub(duration(st.audioBuffer), fromTime)
        created == [halted EXCEPT
                        !.nodes = Append(@, NewSource(RatAdd(pb.contextTime, remaining))),
                        !.source = Len(halted.nodes) + 1]
        started == [created EXCEPT !.nodes[created.source].status = "playing"]
        noted == [pb EXCEPT !.playbackStartTime = pb.contextTime,
                            !.playbackStartOffset = fromTime,
                            !.isPlaying = TRUE]
    IN  IF RatLess(remaining, Rat(0, 1))
        THEN [playback |-> pb, audio |-> created, overlay |-> ov, atEnd |-> FALSE]
        ELSE markerUpdate(st, inp, noted, started, ov)

\* startPlayback once the context runs: the old source is stopped, a new one
\* created and started at fromTime for duration - fromTime seconds (a negative
\* length makes start() throw), the start is noted and the marker updated
startSource(st, inp, pb, au, ov, fromTime) ==
    LET halted == stopPlayback(au)
        remaining == RatSub(duration(st.audioBuffer), fromTime)
        created == [halted EXCEPT
                        !.nodes = Append(@, NewSource(RatAdd(pb.contextTime, remaining))),
                        !.source = Len(halted.nodes) + 1]
        started == [created EXCEPT !.nodes[created.source].status = "playing"]
        noted == [pb EXCEPT !.playbackStartTime = pb.contextTime,
                            !.playbackStartOffset = fromTime,
                            !.isPlaying = TRUE]
    IN  IF RatLess(remaining, Rat(0, 1))
        THEN [playback |-> pb, audio |-> created, overlay |-> ov, atEnd |-> FALSE]
        ELSE markerUpdate(st, inp, noted, started, ov)

\* startPlayback: nothing without a buffer or a context; with a suspended
\* context the rest waits for audioContext.resume()
startPlayback(st, inp, pb, au, ov, fromTime) ==
    IF st.audioBuffer = NoBuffer \/ ~st.audioContext
    THEN [playback |-> pb, audio |-> au, overlay |-> ov, atEnd |-> FALSE]
    ELSE IF au.contextState = "suspended"
    THEN [playback |-> pb, audio |-> [au EXCEPT !.resuming = Append(@, fromTime)],
          overlay |-> ov, atEnd |-> FALSE]
    ELSE startSource(st, inp, pb, au, ov, fromTime)

\* the form while the handlers of playback run
PlayForm == [bpm |-> Rat(120, 1), samplesPerBeat |-> 1, windowSize |-> 2]

\* the z-order offsets (seconds) kept from the offset field
PlayOffsets == {Rat(1, 2), Rat(-1, 2)}

\* the columns of the canvas a click lands on, and the values of the slider
ClickColumns == {0, 1}
SeekValues == {50}

\* the application with a decoded file, before a pass has committed a cache
LoadedState == [InitialState EXCEPT !.audioContext = TRUE, !.audioBuffer = "tone"]

\* the application after a mono pass over the file with the settings PlayForm
ProcessedState ==
    commitMono(LoadedState, powersOf(Samples("tone"), PlayForm, 2), 2, 1,
               PlayForm.samplesPerBeat)

\* the controls after a load, and after the pass that follows it
LoadedUi == [InitialUi EXCEPT !.processButtonDisabled = FALSE]
ProcessedUi ==
    [LoadedUi EXCEPT !.detectBpmButtonDisabled = FALSE, !.playPauseButtonDisabled = FALSE,
                     !.canvasContainerShown = TRUE, !.floatingControlsShown = TRUE]

PlaybackStart ==
    /\ state \in {InitialState, LoadedState, ProcessedState}
    /\ inputs \in {[InitialInputs EXCEPT !.zOrderOffset = offset] : offset \in PlayOffsets}
    /\ canvas = IF HasCache(state) THEN sizedCanvas(2, 1) ELSE BlankCanvas
    /\ audio \in {[AudioIdle EXCEPT !.contextState = now] : now \in {"running", "suspended"}}
    /\ playback = InitialPlayback /\ overlay = InitialOverlay
    /\ ui = IF HasCache(state) THEN ProcessedUi
            ELSE IF state.audioBuffer # NoBuffer THEN LoadedUi ELSE InitialUi
    /\ draw = DrawIdle /\ passes = <<>> /\ loads = <<>>
    /\ lastPass = NoPass

\* room for one more call of startPlayback
CanStart == Len(audio.nodes) < MaxSources /\ Len(audio.resuming) < MaxResuming

\* the outcome of a handler becomes the next state
Becomes(r, event) ==
    /\ playback' = r.playback
    /\ audio' = [r.audio EXCEPT !.last = event]
    /\ overlay' = r.overlay
    /\ UNCHANGED <<morton, win, sizing, rms, state, canvas, draw, inputs, ui, passes,
                   loads, lastPass, query, shade, progress>>

Kept == [playback |-> playback, audio |-> audio, overlay |-> overlay, atEnd |-> FALSE]

\* handlePlayPauseClick: nothing without a buffer or a cache; a pause while
\* playing, otherwise a start from currentPlaybackTime
HandlePlayPauseClick ==
    /\ playback.isPlaying \/ CanStart
    /\ \E r \in {IF state.audioBuffer = NoBuffer \/ ~HasCache(state) THEN Kept
                 ELSE IF playback.isPlaying
                 THEN [Kept EXCEPT !.playback = pausePlayback(playback),
                                   !.audio = stopPlayback(audio)]
                 ELSE startPlayback(state, readForm(PlayForm, inputs), playback, audio,
                                    overlay, playback.currentPlaybackTime)} :
           Becomes(r, [kind |-> "other", time |-> Null, atEnd |-> r.atEnd])

\* handleSeekChange: nothing without a buffer; the slider value as a time
\* becomes currentPlaybackTime, playback restarts there if it was running,
\* otherwise the marker is updated
HandleSeekChange(value) ==
    /\ ~playback.isPlaying \/ CanStart
    /\ \E r \in {IF state.audioBuffer = NoBuffer THEN Kept
                 ELSE LET time == RatMul(Rat(value, 100), duration(state.audioBuffer))
                          sought == [playback EXCEPT !.currentPlaybackTime = time]
                      IN  IF playback.isPlaying
                          THEN startPlayback(state, readForm(PlayForm, inputs), sought,
                                             audio, overlay, time)
                          ELSE markerUpdate(state, readForm(PlayForm, inputs), sought,
                                            audio, overlay)} :
           Becomes(r, [kind |-> "other", time |-> Null, atEnd |-> r.atEnd])

\* the time handleCanvasClick maps the pixel (x, 0) to: null without a buffer
\* or a cache, otherwise what getTimeForCanvasClick gives
clickedTime(st, inp, x) ==
    IF st.audioBuffer = NoBuffer \/ ~HasCache(st) THEN Null
    ELSE getTimeForCanvasClick(Rat(x, 1), Rat(0, 1), inp.bpm, st.cachedSamplesPerBeat,
                               Num(0, zOrderOffsetWindows(inp.zOrderOffset, inp.bpm,
                                                          st.cachedSamplesPerBeat)),
                               duration(st.audioBuffer))

\* handleCanvasClick: nothing without a buffer or a cache, nothing for a null
\* time; otherwise the time becomes currentPlaybackTime and playback starts
HandleCanvasClick(x) ==
    /\ CanStart
    /\ \E time \in {clickedTime(state, readForm(PlayForm, inputs), x)} :
       \E r \in {IF IsNull(time) THEN Kept
                 ELSE startPlayback(state, readForm(PlayForm, inputs),
                                    [playback EXCEPT !.currentPlaybackTime = Get(time)],
                                    audio, overlay, Get(time))} :
           Becomes(r, [kind |-> "click", time |-> time, atEnd |-> r.atEnd])

\* audioContext.resume() settles: the context runs and the oldest waiting
\* startPlayback goes on
ResumeSettles ==
    /\ audio.resuming # <<>>
    /\ \E r \in {startSource(state, readForm(PlayForm, inputs), playback,
                             [audio EXCEPT !.contextState = "running",
                                           !.resuming = Tail(@)],
                             overlay, Head(audio.resuming))} :
           Becomes(r, [kind |-> "resume", time |-> Null, atEnd |-> r.atEnd])

\* audioContext.currentTime advances
ClockTick ==
    /\ RatLess(playback.contextTime, RatMul(Rat(MaxPlaybackTicks, 1), PlaybackTick))
    /\ playback' = [playback EXCEPT !.contextTime = RatAdd(@, PlaybackTick)]
    /\ UNCHANGED <<morton, win, sizing, rms, state, canvas, draw, inputs, ui, passes,
                   loads, overlay, lastPass, query, shade, audio, progress>>

\* the ended event of source n is dispatched (the source played to its end or
\* was stopped): its onended handler, if still set, runs; the handler acts
\* only while isPlaying
SourceEnded(n) ==
    /\ \/ audio.nodes[n].status = "stopped"
       \/ audio.nodes[n].status = "playing" /\ RatLeq(audio.nodes[n].endAt, playback.contextTime)
    /\ \E r \in {LET handled == audio.nodes[n].onended
                     over == [audio EXCEPT !.nodes[n].status = "done",
                                           !.nodes[n].ran = handled]
                 IN  IF handled /\ playback.isPlaying
                     THEN [markerUpdate(state, readForm(PlayForm, inputs),
                                        [playback EXCEPT !.isPlaying = FALSE,
                                                         !.currentPlaybackTime = Rat(0, 1)],
                                        over, overlay)
                              EXCEPT !.atEnd = TRUE]
                     ELSE [Kept EXCEPT !.audio = over]} :
           Becomes(r, [kind |-> "ended", time |-> Null, atEnd |-> r.atEnd])

\* a pending animation frame callback runs updateMarkerWrapper: the one whose
\* id animationFrameId holds, or another one
AnimationFrame(recorded) ==
    /\ IF recorded THEN audio.frame ELSE audio.stray > 0
    /\ \E r \in {markerUpdate(state, readForm(PlayForm, inputs), playback,
                              IF recorded THEN [audio EXCEPT !.frame = FALSE]
                              ELSE [audio EXCEPT !.stray = @ - 1],
                              overlay)} :
           Becomes(r, [kind |-> "frame", time |-> Null, atEnd |-> r.atEnd])

\* the window is resized: handleWindowResize sets up the overlay and calls
\* updateMarkerWrapper once a pass has shown the floating controls
HandleWindowResize ==
    /\ audio.stray < MaxStrayFrames \/ ~(playback.isPlaying /\ audio.frame)
    /\ \E r \in {IF state.cachedCanvasWidth # 0 /\ ui.floatingControlsShown
                 THEN markerUpdate(state, readForm(PlayForm, inputs), playback, audio,
                                   overlay)
                 ELSE Kept} :
           Becomes(r, [kind |-> "other", time |-> Null, atEnd |-> r.atEnd])

PlaybackNext ==
    \/ HandlePlayPauseClick
    \/ \E value \in SeekValues : HandleSeekChange(value)
    \/ \E x \in ClickColumns : HandleCanvasClick(x)
    \/ ResumeSettles
    \/ ClockTick
    \/ \E n \in DOMAIN audio.nodes : SourceEnded(n)
    \/ \E recorded \in BOOLEAN : AnimationFrame(recorded)
    \/ HandleWindowResize

PlaybackInit ==
    /\ PlaybackStart /\ morton = MortonIdle /\ win = WinIdle /\ sizing = SizingIdle
    /\ rms = RmsIdle /\ shade = ShadeIdle /\ query = QueryIdle /\ progress = ProgressIdle

SpecPlayback == PlaybackInit /\ [][PlaybackNext]_vars

\* C26: with an audio buffer and a cache present, a click on a pixel whose
\* mapped time is non-null sets currentPlaybackTime to that time and starts
\* playback from it (isPlaying true, playbackStartOffset equal to that time;
\* with a suspended context the start waits for the context to resume),
\* whether or not playback was running; a click whose mapped time is null, or
\* a click with no buffer or no cache, leaves the whole playback state unchanged
CanvasClickSeeksAndPlays ==
    [][\A x \in ClickColumns :
           HandleCanvasClick(x) =>
               LET time == clickedTime(state, readForm(PlayForm, inputs), x)
               IN  IF IsNull(time) THEN playback' = playback
                   ELSE /\ playback'.currentPlaybackTime = Get(time)
                        /\ IF audio.contextState = "running"
                           THEN /\ playback'.isPlaying
                                /\ playback'.playbackStartOffset = Get(time)
                           ELSE audio'.resuming = Append(audio.resuming, Get(time))]_vars

\* C29: whenever playback reaches the end of the audio buffer without a user
\* stop, whether the onended handler of the source or the animation frame that
\* finds time >= duration comes first, the playback state ends with
\* isPlaying = false and currentPlaybackTime = 0
NaturalEndResets ==
    (audio.last.atEnd /\ audio.last.kind \in {"ended", "frame"})
        => ~playback.isPlaying /\ playback.currentPlaybackTime = Rat(0, 1)

\* C30: stopPlayback clears the onended handler of the source before stopping
\* it, so the natural-end handler of a source stopped by a pause, a seek
\* restart or a click restart never runs and the ended event of such a source
\* leaves the playback state as it is; a pause leaves currentPlaybackTime at
\* playbackStartOffset + elapsed time, with isPlaying false
ManualStopIsNoNaturalEnd ==
    [][/\ \A n \in DOMAIN audio'.nodes :
              audio'.nodes[n].stopped => ~audio'.nodes[n].onended /\ ~audio'.nodes[n].ran
       /\ \A n \in DOMAIN audio.nodes :
              (SourceEnded(n) /\ audio.nodes[n].stopped) => playback' = playback
       /\ (HandlePlayPauseClick /\ playback.isPlaying)
              => /\ playback'.currentPlaybackTime = reachedTime(playback)
                 /\ ~playback'.isPlaying]_vars

\* a source was stopped while playing, playback paused past the start, and
\* the ended event of the stopped source has been dispatched
ManualStopIsNoNaturalEndWitness ==
    /\ ~playback.isPlaying
    /\ RatLess(Rat(0, 1), playback.currentPlaybackTime)
    /\ RatLess(playback.currentPlaybackTime, duration("tone"))
    /\ \E n \in DOMAIN audio.nodes :
           audio.nodes[n].stopped /\ audio.nodes[n].status = "done"

(***************************************************************************)
(* ui-controller2.ts: the window loop of a pass as seen by the progress    *)
(* bar (processMonoMode and processRGBMode have the same loop frame)       *)
(***************************************************************************)
\* the suspensions after the first that the longest pass reaches
MaxCadenceSegments == 2

\* window counts around the multiples of YieldEvery
CadenceWindows ==
    {0, 1, YieldEvery - 1, YieldEvery, YieldEvery + 1, YieldEvery + 3,
     (MaxCadenceSegments * YieldEvery) + 1}

\* processAudio up to the loop: the bar at 0%; the loop will run totalWindows
\* windows, and powerToColor throws at window throwsAt (never, if -1)
CadenceStart ==
    progress \in {[ProgressIdle EXCEPT !.pc = "loop", !.totalWindows = n, !.throwsAt = t] :
                      n \in CadenceWindows, t \in {-1, 1}}

\* Math.round((i / totalWindows) * 100)
progressText(i, count) == Round(Rat(i * 100, count))

\* one iteration of the loop: the window is computed and drawn (powerToColor
\* may throw, which ends the pass); at a multiple of YieldEvery the bar is set
\* and the loop waits for an animation frame
LoopIteration ==
    /\ progress.pc = "loop" /\ progress.i < progress.totalWindows
    /\ progress' =
           IF progress.i = progress.throwsAt THEN [progress EXCEPT !.pc = "thrown"]
           ELSE IF progress.i % YieldEvery = 0
           THEN [progress EXCEPT
                    !.pc = "suspended",
                    !.fill = Rat(progress.i, progress.totalWindows),
                    !.text = progressText(progress.i, progress.totalWindows),
                    !.suspendedAt = Append(@, progress.i),
                    !.reported = Append(@, Rat(progress.i, progress.totalWindows))]
           ELSE [progress EXCEPT !.i = @ + 1]
    /\ UNCHANGED <<morton, win, sizing, rms, query, shade, audio, appVars>>

\* the animation frame the loop waits for
LoopResumes ==
    /\ progress.pc = "suspended"
    /\ progress' = [progress EXCEPT !.pc = "loop", !.i = @ + 1]
    /\ UNCHANGED <<morton, win, sizing, rms, query, shade, audio, appVars>>

\* the end of processMonoMode / processRGBMode: the maxima, the cache and the
\* final redrawCanvas
LoopEnds ==
    /\ progress.pc = "loop" /\ progress.i >= progress.totalWindows
    /\ progress' = [progress EXCEPT !.pc = "rendered", !.redrawn = TRUE]
    /\ UNCHANGED <<morton, win, sizing, rms, query, shade, audio, appVars>>

\* processAudio after the mode function has returned: the bar at 100%
PassReturns ==
    /\ progress.pc = "rendered"
    /\ progress' = [progress EXCEPT !.pc = "done", !.fill = Rat(1, 1), !.text = 100]
    /\ UNCHANGED <<morton, win, sizing, rms, query, shade, audio, appVars>>

CadenceNext == LoopIteration \/ LoopResumes \/ LoopEnds \/ PassReturns

CadenceInit ==
    /\ CadenceStart /\ morton = MortonIdle /\ win = WinIdle /\ sizing = SizingIdle
    /\ rms = RmsIdle /\ query = QueryIdle /\ shade = ShadeIdle /\ audio = AudioIdle
    /\ AppIdle

SpecCadence == CadenceInit /\ [][CadenceNext]_vars

\* the window indices at which a loop that has come as far as `progress` has
\* suspended if it suspends at the multiples of YieldEvery and nowhere else
CadenceIndices ==
    {k * YieldEvery : k \in {j \in 0..(progress.i \div YieldEvery) :
                                \/ j * YieldEvery < progress.i
                                \/ progress.pc = "suspended" /\ j * YieldEvery = progress.i}}

\* C27: during a pass the loop suspends exactly at the window indices i with
\* i mod 1000 = 0 (0 included); the progress reported at each suspension is
\* i / totalWindows, at least 0 and below 1, and non-decreasing over the pass;
\* 100% is reported (as the width of the bar or as its text) only after the
\* final re-render
YieldCadenceAndProgress ==
    /\ {progress.suspendedAt[j] : j \in DOMAIN progress.suspendedAt} = CadenceIndices
    /\ Len(progress.suspendedAt) = Cardinality(CadenceIndices)
    /\ \A j \in DOMAIN progress.reported :
           /\ progress.reported[j] = Rat(progress.suspendedAt[j], progress.totalWindows)
           /\ RatLeq(Rat(0, 1), progress.reported[j])
           /\ RatLess(progress.reported[j], Rat(1, 1))
           /\ \A k \in 1..j : RatLeq(progress.reported[k], progress.reported[j])
    /\ (progress.fill = Rat(1, 1) \/ progress.text = 100) => progress.redrawn

\* C28: when the tempo detection of a decoded file succeeds while that file
\* is still the loaded one, a processing pass over the file is started in the
\* same step (processAudio gets past its guard), also when the load completes
\* while a pass over the previous file is in flight
AutomaticProcessingAfterLoad ==
    [][\A k \in DOMAIN loads :
           (/\ loads[k].pc = "detecting"
            /\ loads' = Without(loads, k)
            /\ ui'.reenableTimers = ui.reenableTimers + 1
            /\ state.audioBuffer = loads[k].file)
               => draw'.started = draw.started + 1]_vars

\* C31: after any sequence of play, pause, seek, click and resize events,
\* startPlayback calls that overlap on audioContext.resume() included, every
\* source that was created and started is the one held in
\* playbackState.audioSource or is no longer playing and has been disconnected
AtMostOneLiveSource ==
    \A n \in DOMAIN audio.nodes :
        audio.nodes[n].status # "idle"
            => \/ audio.source = n
               \/ audio.nodes[n].status # "playing" /\ audio.nodes[n].disconnected

\* of two startPlayback calls that waited for resume() the first has started
\* its source and the second has replaced it with its own
AtMostOneLiveSourceWitness ==
    /\ Len(audio.nodes) = 2 /\ audio.source = 2 /\ audio.resuming = <<>>
    /\ audio.nodes[1].disconnected /\ audio.nodes[1].status \in {"stopped", "done"}
    /\ audio.nodes[2].status = "playing"
    /\ audio.last.kind = "resume"

\* C32: in every reachable state 0 <= currentPlaybackTime <= audio duration,
\* so that a startPlayback(currentPlaybackTime) passes a remaining length
\* duration - fromTime >= 0 to the source
PlaybackPositionInRange ==
    state.audioBuffer # NoBuffer
        => /\ RatLeq(Rat(0, 1), playback.currentPlaybackTime)
           /\ RatLeq(playback.currentPlaybackTime, duration(state.audioBuffer))

\* C33: at any time at most one requestAnimationFrame callback of
\* updateMarkerWrapper is pending and it is the one recorded in
\* playbackState.animationFrameId; none is pending once playback has been
\* paused or stopped (stopPlayback has dropped the source); also when seeks and
\* window resizes occur while playing
SingleMarkerAnimationLoop ==
    /\ audio.stray = 0
    /\ (~playback.isPlaying /\ audio.source = 0) => ~audio.frame

\* C34: in every reachable state at most one of cachedPowers and
\* cachedRGBPowers is non-null; with cachedPowers non-null cachedVizMode is
\* 'mono'; with cachedRGBPowers non-null cachedVizMode is 'rgb' and the low,
\* mid and high arrays have equal length; so redrawCanvas, which chooses its
\* array by cachedVizMode, never reads an array that is null
CacheShape ==
    /\ IsNull(state.cachedPowers) \/ IsNull(state.cachedRGBPowers)
    /\ ~IsNull(state.cachedPowers) => state.cachedVizMode = "mono"
    /\ ~IsNull(state.cachedRGBPowers)
           => /\ state.cachedVizMode = "rgb"
              /\ Len(Get(state.cachedRGBPowers).low) = Len(Get(state.cachedRGBPowers).mid)
              /\ Len(Get(state.cachedRGBPowers).mid) = Len(Get(state.cachedRGBPowers).high)
    /\ HasCache(state) => redrawBranch(state) = state.cachedVizMode

\* an rgb pass has just replaced the cache of an earlier mono pass over the
\* same file
CacheShapeWitness ==
    /\ lastPass.pc = "completed" /\ lastPass.vizMode = "rgb"
    /\ ~IsNull(state.cachedRGBPowers) /\ IsNull(state.cachedPowers)
    /\ Len(Get(state.cachedRGBPowers).low) > 0
    /\ draw.started = 2 /\ draw.loaded = 1
    /\ state.maxPowerMono # PowerOne

(***************************************************************************)
(* The window schedule of a pass against the length of its signal          *)
(***************************************************************************)
MaxScheduleLength == 6
MaxScheduleWindowSize == 2

ScheduleBpm == {60, 80, 90, 120}
ScheduleSamplesPerBeat == {1, 2}
ScheduleSampleRate == {1, 2, 3}
ScheduleSignals == {Tuple([j \in 1..n |-> v]) : n \in 1..MaxScheduleLength, v \in {0, 1}}

ScheduleStart ==
    /\ win \in {[WinIdle EXCEPT !.pc = "start", !.bpm = c[1], !.samplesPerBeat = c[2],
                                !.sampleRate = c[3], !.i = c[4]] :
                   c \in ScheduleBpm \X ScheduleSamplesPerBeat \X ScheduleSampleRate
                             \X (0..MaxScheduleLength)}
    /\ rms \in {[RmsIdle EXCEPT !.pc = "start", !.audioData = c[1], !.windowSize = c[2]] :
                   c \in ScheduleSignals \X (1..MaxScheduleWindowSize)}

\* processAudio: windowIntervalSamples of the configuration
ScheduleInterval ==
    windowIntervalSamples(Rat(win.bpm, 1), win.samplesPerBeat, win.sampleRate)

\* processAudio: totalWindows of the configuration over the signal
ScheduleWindows == totalWindows(Len(rms.audioData), ScheduleInterval)

\* one iteration of the pass loop: position window i and measure it
PassIteration ==
    /\ win.pc = "start" /\ rms.pc = "start"
    /\ \E s \in {startSample(win.i, ScheduleInterval)} :
          /\ win' = [win EXCEPT !.startSample = s, !.pc = "done"]
          /\ rms' = [rms EXCEPT !.startSample = s,
                                !.power = calculateRMSPower(rms.audioData, s, rms.windowSize),
                                !.pc = "done"]
    /\ UNCHANGED <<morton, sizing, query, shade, audio, progress, appVars>>

ScheduleNext == PassIteration

ScheduleInit ==
    ScheduleStart /\ morton = MortonIdle /\ sizing = SizingIdle
    /\ query = QueryIdle /\ shade = ShadeIdle /\ audio = AudioIdle /\ progress = ProgressIdle /\ AppIdle

SpecSchedule == ScheduleInit /\ [][ScheduleNext]_vars

\* the iteration is one the loop of the pass makes: i < totalWindows
InsidePass == win.pc = "done" /\ rms.pc = "done" /\ win.i < ScheduleWindows

\* C35: with an interval of at least one sample every window i of the pass,
\* 0 <= i < totalWindows = floor(signalLength / interval), starts at
\* round(i * interval) < signalLength, so calculateRMSPower averages over at
\* least one sample and the recorded power is not the NaN of an empty window.
NoEmptyWindowInsidePass ==
    (InsidePass /\ RatLeq(Rat(1, 1), ScheduleInterval))
        => /\ rms.startSample = Round(RatMul(Rat(win.i, 1), ScheduleInterval))
           /\ rms.startSample < Len(rms.audioData)
           /\ Cardinality(RmsIndices) >= 1
           /\ ~rms.power.nan

\* the last window of a pass whose fractional interval rounds its start up
\* onto the last sample
NoEmptyWindowInsidePassWitness ==
    /\ InsidePass /\ RatLeq(Rat(1, 1), ScheduleInterval)
    /\ ScheduleInterval.den # 1
    /\ win.i = ScheduleWindows - 1 /\ win.i > 0
    /\ RatLess(RatMul(Rat(win.i, 1), ScheduleInterval), Rat(rms.startSample, 1))
    /\ rms.startSample = Len(rms.audioData) - 1
    /\ ~rms.power.nan

(***************************************************************************)
(* Blocks of consecutive indices under getZOrderCoordinates                *)
(***************************************************************************)
\* levels whose blocks of 4^k indices are enumerated whole
MaxBlockLevel == 3

\* the index trip has applied getZOrderCoordinates to morton.index
IndexMapped == morton.trip = "index" /\ morton.pc # "start"

\* the first index of the block of 4^k consecutive indices that holds n
blockStart(n, k) == (n \div (4 ^ k)) * (4 ^ k)

\* the pixels the block of level k around n maps to
blockPixels(n, k) ==
    {zOrderCoordinatesOf(blockStart(n, k) + j) : j \in 0..((4 ^ k) - 1)}

\* the 2^k x 2^k square of pixels whose top-left corner is c
squareAt(c, k) ==
    {[x |-> c.x + dx, y |-> c.y + dy] : dx \in 0..((2 ^ k) - 1), dy \in 0..((2 ^ k) - 1)}

aligned(c, k) == c.x % (2 ^ k) = 0 /\ c.y % (2 ^ k) = 0

\* C36: for every k and m in range the 4^k consecutive indices
\* [m * 4^k, (m + 1) * 4^k) map under getZOrderCoordinates exactly onto one
\* aligned 2^k x 2^k square of pixels, each pixel once; for every even n,
\* index n + 1 maps to the pixel immediately to the right of index n.
HierarchicalLocality ==
    IndexMapped =>
        /\ \A k \in 0..(MortonBits - 1) :
              LET corner == getZOrderCoordinates(blockStart(morton.index, k))
              IN  /\ aligned(corner, k)
                  /\ morton.x \div (2 ^ k) = corner.x \div (2 ^ k)
                  /\ morton.y \div (2 ^ k) = corner.y \div (2 ^ k)
        /\ \A k \in 0..MaxBlockLevel :
              LET corner == getZOrderCoordinates(blockStart(morton.index, k))
              IN  /\ [x |-> morton.x, y |-> morton.y] \in blockPixels(morton.index, k)
                  /\ blockPixels(morton.index, k) = squareAt(corner, k)
                  /\ Cardinality(blockPixels(morton.index, k)) = 4 ^ k
        /\ morton.index % 2 = 0
              => getZOrderCoordinates(morton.index + 1) = [x |-> morton.x + 1, y |-> morton.y]

\* the even index 2^30 + 4 is mapped: its block of 64 indices starts at 2^30
\* and covers the square at (32768, 0)
HierarchicalLocalityWitness ==
    /\ IndexMapped /\ morton.pc = "done"
    /\ morton.index = (2 ^ 30) + 4
    /\ morton.x = 32770 /\ morton.y = 0
    /\ blockStart(morton.index, MaxBlockLevel) = 2 ^ 30
    /\ [x |-> 32775, y |-> 7] \in blockPixels(morton.index, MaxBlockLevel)

(***************************************************************************)
(* powerToColor in mono mode: a finite power against a positive maximum    *)
(***************************************************************************)
\* a call powerToColor(power, 0, max) with power finite and max > 0 has returned
MonoCall ==
    /\ shade.pc = "done"
    /\ ~shade.power.nan /\ ~shade.maxPower.nan
    /\ shade.minPower = PowerZero
    /\ shade.maxPower.sq.num > 0

\* the square of min(1, power / max)
clampedRatioSquared(power, maxPower) ==
    IF RatLeq(maxPower.sq, power.sq) THEN Rat(1, 1) ELSE RatDiv(power.sq, maxPower.sq)

\* k = floor(min(1, power / max) * 255)
IsFloorOfScaled(k, power, maxPower) ==
    /\ RatLeq(Rat(k * k, ByteMax * ByteMax), clampedRatioSquared(power, maxPower))
    /\ RatLess(clampedRatioSquared(power, maxPower),
               Rat((k + 1) * (k + 1), ByteMax * ByteMax))

\* C37: for every finite power >= 0 and maximum max > 0,
\* powerToColor(power, 0, max) selects table index
\* floor(min(1, power / max) * 255), which lies in 0..255, does not decrease
\* when the power grows, and is 255 exactly when power >= max; the alpha of
\* the returned colour is 255.
MonoColourIndex ==
    MonoCall =>
        /\ ~shade.throws
        /\ shade.index \in 0..ByteMax
        /\ IsFloorOfScaled(shade.index, shade.power, shade.maxPower)
        /\ shade.index = ByteMax <=> RatLeq(shade.maxPower.sq, shade.power.sq)
        /\ \A q \in ShadePowers :
              (~q.nan /\ RatLeq(q.sq, shade.power.sq))
                  => powerToColor(q, PowerZero, shade.maxPower).index <= shade.index
        /\ ViridisPixel(shade.index).a = ByteMax

\* power 1 against maximum 3: a third of the range is exactly index 85
MonoColourIndexWitness ==
    /\ MonoCall
    /\ shade.power = PowerOne /\ shade.maxPower = PowerOf(9, 1)
    /\ shade.index = 85

====
